---- MODULE Spec2Model ----
(***************************************************************************)
(* A model of the document-grounded script-generation pipeline of          *)
(* hyprflow-ai-builder: the chunking loop of process-sop, the script       *)
(* extractor of generate-script-rag, and the run-configuration detector,   *)
(* applier and submit handler of the ChatInterface component.              *)
(*                                                                         *)
(* Text is a sequence of one-character strings.  A few multi-character     *)
(* lexemes that the code only ever matches as a whole (the four section    *)
(* sentinels, the ``` fence, identifiers of the generated script) are one  *)
(* element each.                                                           *)
(***************************************************************************)
EXTENDS Integers, Sequences, FiniteSets, TLC

VARIABLES
    \* process-sop
    extractedText, chunkSize, overlap, cleanedText, chunks, sopStep,
    \* generate-script-rag: the model's answer, and the response built from it
    parts, generatedContent, scripts,
    \* ChatInterface: React state, and the script of the job request in flight
    generatedScripts, runConfigFields, runConfig, pendingRunCode, runStep,
    isRunExecuting, jobScript, toast,
    \* ChatInterface: the run in flight (executeSeleniumRun / pollJob)
    mounted, runPc, attempt, reads, lastJob, runOutput, latestScreenshotUrl,
    requests, clock, lastReadAt,
    \* generate-script: the request, the environment, the retry loop, the reply
    genRequest, openaiKey, lovableKey, genPc, genAttempt, response, lastError,
    outcomes, fallbackCalls, genReply,
    \* generate-script: the fetches in flight, the timer of the backoff
    inFlight, genClock, retryAt, waits,
    \* generate-script-rag (retrieval variant): the points the index returns,
    \* and the context built from them
    scrollPoints, allChunks, context, ctxPc,
    \* process-sop: the chunking loop, step by step
    loopI, iterations,
    \* process-sop: the document row, the handler's position and its reply
    docVariant, docText, docPc, docStatus, docStored, docReply,
    \* ChatInterface handleSend: the documents of the session, the message sent
    sopDocuments, userMessage, sendPc,
    \* preflight-job: the request, the calls made, the reply
    pfRequest, pfPc, pfCalls, pfReply,
    \* stripCodeFences: the slice handed to it, what it returned
    slice, stripped,
    \* ChatInterface: the flag that disables the Upload control, the upload
    isProcessing, uploadPc

chunkVars == <<extractedText, chunkSize, overlap, cleanedText, chunks, sopStep>>
ragVars == <<parts, generatedContent, scripts>>
chatVars == <<generatedScripts, runConfigFields, runConfig, pendingRunCode,
              runStep, isRunExecuting, jobScript, toast>>
runVars == <<mounted, runPc, attempt, reads, lastJob, runOutput,
             latestScreenshotUrl, requests, clock, lastReadAt>>
uiVars == <<chatVars, runVars>>
timerVars == <<inFlight, genClock, retryAt, waits>>
genVars == <<genRequest, openaiKey, lovableKey, genPc, genAttempt, response,
             lastError, outcomes, fallbackCalls, genReply, timerVars>>
ctxVars == <<scrollPoints, allChunks, context, ctxPc>>
loopVars == <<loopI, iterations>>
docVars == <<docVariant, docText, docPc, docStatus, docStored, docReply>>
sendVars == <<sopDocuments, userMessage, sendPc>>
pfVars == <<pfRequest, pfPc, pfCalls, pfReply>>
auxVars == <<slice, stripped, isProcessing, uploadPc>>
restVars == <<loopVars, docVars, sendVars, pfVars, auxVars>>
serverVars == <<chunkVars, ragVars, genVars, ctxVars, restVars>>
vars == <<serverVars, uiVars>>

----------------------------------------------------------------------------
\* Bounds of the model

MaxTextLen == 5
MaxChunkSize == 4
MaxPayloadLen == 2
MaxValueLen == 4
MaxEntryLen == 2
MaxChunks == 3

----------------------------------------------------------------------------
\* Text helpers (JavaScript string primitives)

SeqsUpTo(S, n) == UNION {[1..k -> S] : k \in 0..n}

MinOf(S) == CHOOSE x \in S : \A y \in S : x <= y
MaxOf(S) == CHOOSE x \in S : \A y \in S : x >= y

\* What \s matches, among the characters of the model
IsSpace(c) == c \in {" ", "\n"}

\* String.prototype.trim
Trim(s) ==
    LET keep == {i \in 1..Len(s) : ~IsSpace(s[i])}
    IN  IF keep = {} THEN <<>> ELSE SubSeq(s, MinOf(keep), MaxOf(keep))

\* s.substring(from, to) with 0-based, end-exclusive indices clamped to s
\* (every call has from <= to)
ClampTo(s, n) == IF n < 0 THEN 0 ELSE IF n > Len(s) THEN Len(s) ELSE n
Substring(s, from, to) == SubSeq(s, ClampTo(s, from) + 1, ClampTo(s, to))

\* A string | null value: null is a text of its own
NULL == <<"null">>
Falsy(code) == code = NULL \/ code = <<>>

\* The first index >= i of s whose character is not whitespace
RECURSIVE SkipSpace(_, _)
SkipSpace(s, i) == IF i <= Len(s) /\ IsSpace(s[i]) THEN SkipSpace(s, i + 1) ELSE i

\* ^ under the m flag
AtLineStart(s, i) == i = 1 \/ s[i - 1] = "\n"

\* No upload in progress
ChunkIdle ==
    /\ extractedText = <<>>
    /\ chunkSize = 1
    /\ overlap = 0
    /\ cleanedText = <<>>
    /\ chunks = <<>>
    /\ sopStep = "idle"

\* No generation in progress
RagIdle ==
    /\ parts = <<>>
    /\ generatedContent = <<>>
    /\ scripts = <<>>

NoToast == [kind |-> "none", names |-> <<>>]

\* No fetch in flight, no timer set
TimerIdle ==
    /\ inFlight = 0
    /\ genClock = 0
    /\ retryAt = 0
    /\ waits = <<>>

\* No read of the job has been answered in this run
NoJob == [status |-> "none", latest_screenshot_url |-> NULL, log_output |-> NULL,
          error_message |-> NULL]

\* No request to generate-script, and no keys in the environment
NoRequest == [message |-> [pad |-> 0, core |-> 0], document |-> FALSE]
NoResponse == [status |-> 0, body |-> <<>>]
NoReply == [status |-> 0, body |-> "none"]
GenIdle ==
    /\ genRequest = NoRequest
    /\ openaiKey = FALSE
    /\ lovableKey = FALSE
    /\ genPc = "idle"
    /\ genAttempt = 0
    /\ response = NoResponse
    /\ lastError = "undefined"
    /\ outcomes = <<>>
    /\ fallbackCalls = 0
    /\ genReply = NoReply
    /\ TimerIdle

\* No retrieval in progress
CtxIdle ==
    /\ scrollPoints = <<>>
    /\ allChunks = <<>>
    /\ context = <<>>
    /\ ctxPc = "idle"

\* The chunking loop has not started
LoopIdle ==
    /\ loopI = 0
    /\ iterations = 0

\* No document is being processed
NoText == [length |-> 0, visible |-> FALSE]
NoDocReply == [status |-> 0, error |-> "none"]
DocIdle ==
    /\ docVariant = "none"
    /\ docText = NoText
    /\ docPc = "idle"
    /\ docStatus = "none"
    /\ docStored = {}
    /\ docReply = NoDocReply

\* Nothing has been sent from the message box
NoMessage == [pad |-> 0, core |-> 0]
SendIdle ==
    /\ sopDocuments = {}
    /\ userMessage = NoMessage
    /\ sendPc = "idle"

\* No preflight request has arrived
NoPreflight == [target_url |-> NULL, job_id |-> FALSE, method |-> "none"]
PfIdle ==
    /\ pfRequest = NoPreflight
    /\ pfPc = "idle"
    /\ pfCalls = {}
    /\ pfReply = 0

\* No slice has been stripped; nothing is being processed
NotStripped == <<"not stripped">>
FenceIdle ==
    /\ slice = <<>>
    /\ stripped = NotStripped
AuxIdle ==
    /\ FenceIdle
    /\ isProcessing = FALSE
    /\ uploadPc = "idle"

RestIdle == LoopIdle /\ DocIdle /\ SendIdle /\ PfIdle /\ AuxIdle

\* The component as mounted: the useState initial values
ChatIdle ==
    /\ generatedScripts = NULL
    /\ runConfigFields = <<>>
    /\ runConfig = <<>>
    /\ pendingRunCode = NULL
    /\ runStep = "idle"
    /\ isRunExecuting = FALSE
    /\ jobScript = NULL
    /\ toast = NoToast
    /\ mounted = TRUE
    /\ runPc = "none"
    /\ attempt = 0
    /\ reads = 0
    /\ lastJob = NoJob
    /\ runOutput = NULL
    /\ latestScreenshotUrl = NULL
    /\ requests = {}
    /\ clock = 0
    /\ lastReadAt = 0

----------------------------------------------------------------------------
\* process-sop: normalisation and the chunking loop

TextChars == {"a", "b", " ", "\n"}

\* .replace(/\s+/g, ' '): every maximal run of whitespace becomes one space
RECURSIVE CollapseSpace(_)
CollapseSpace(s) ==
    IF s = <<>> THEN <<>>
    ELSE IF IsSpace(Head(s))
         THEN IF Len(s) > 1 /\ IsSpace(s[2])
              THEN CollapseSpace(Tail(s))
              ELSE <<" ">> \o CollapseSpace(Tail(s))
         ELSE <<Head(s)>> \o CollapseSpace(Tail(s))

\* .replace(/\n+/g, '\n'): every maximal run of newlines becomes one newline
RECURSIVE CollapseNewlines(_)
CollapseNewlines(s) ==
    IF s = <<>> THEN <<>>
    ELSE IF Head(s) = "\n" /\ Len(s) > 1 /\ s[2] = "\n"
         THEN CollapseNewlines(Tail(s))
         ELSE <<Head(s)>> \o CollapseNewlines(Tail(s))

CleanText(raw) == Trim(CollapseNewlines(CollapseSpace(raw)))

\* The loop increment, i += chunkSize - overlap
ChunkStepNoOverlap(size, ov) == size
ChunkStep(size, ov) == size - ov

\* for (let i = 0; i < cleanedText.length; i += chunkSize - overlap)
RECURSIVE ChunkLoop(_, _, _, _)
ChunkLoop(t, size, ov, i) ==
    IF i >= Len(t) THEN <<>>
    ELSE LET chunk == Substring(t, i, i + size)
         IN  (IF Trim(chunk) # <<>> THEN <<chunk>> ELSE <<>>)
                 \o ChunkLoop(t, size, ov, i + ChunkStep(size, ov))

InitChunk ==
    /\ RagIdle
    /\ ChatIdle
    /\ GenIdle
    /\ CtxIdle
    /\ RestIdle
    /\ extractedText \in SeqsUpTo(TextChars, MaxTextLen)
    /\ chunkSize \in 1..MaxChunkSize
    /\ overlap \in 0..(chunkSize - 1)
    /\ cleanedText = <<>>
    /\ chunks = <<>>
    /\ sopStep = "extracted"

\* Clean the text, then chunk it
ChunkDocument ==
    /\ sopStep = "extracted"
    /\ cleanedText' = CleanText(extractedText)
    /\ chunks' = ChunkLoop(CleanText(extractedText), chunkSize, overlap, 0)
    /\ sopStep' = "chunked"
    /\ UNCHANGED <<extractedText, chunkSize, overlap, ragVars, genVars, ctxVars, restVars, uiVars>>

NextChunk == ChunkDocument

SpecChunk == InitChunk /\ [][NextChunk]_vars

----------------------------------------------------------------------------
\* C1

\* Chunk k without the part it shares with chunk k-1: its first `ov`
\* characters (all of it when it is no longer than `ov`)
DropShared(chunk, ov) == Substring(chunk, ov, Len(chunk))

RECURSIVE Reassemble(_, _)
Reassemble(cs, ov) ==
    IF cs = <<>> THEN <<>>
    ELSE IF Len(cs) = 1 THEN cs[1]
    ELSE Reassemble(SubSeq(cs, 1, Len(cs) - 1), ov) \o DropShared(cs[Len(cs)], ov)

----------------------------------------------------------------------------
\* generate-script-rag: the script extractor

SEL_OPEN == "=== PYTHON_SELENIUM_SCRIPT ==="
SEL_CLOSE == "=== END_PYTHON_SELENIUM_SCRIPT ==="
PW_OPEN == "=== PYTHON_PLAYWRIGHT_SCRIPT ==="
PW_CLOSE == "=== END_PYTHON_PLAYWRIGHT_SCRIPT ==="
Sentinels == {SEL_OPEN, SEL_CLOSE, PW_OPEN, PW_CLOSE}

\* The fence-token, three backticks
FENCE == "FENCE"
\* "p" is a character of [a-zA-Z0-9_\-], "(" is a character outside it
IsTagChar(c) == c = "p"
CodeChars == {FENCE, "p", "(", "\n", " "}

\* The first index >= i of s whose character is not a tag character
RECURSIVE SkipTag(_, _)
SkipTag(s, i) == IF i <= Len(s) /\ IsTagChar(s[i]) THEN SkipTag(s, i + 1) ELSE i

\* cleaned.replace(/^```[a-zA-Z0-9_\-]*\s*\n?/gm, ""), from index i on
RECURSIVE StripOpeningFences(_, _)
StripOpeningFences(s, i) ==
    IF i > Len(s) THEN <<>>
    ELSE IF s[i] = FENCE /\ AtLineStart(s, i)
         THEN StripOpeningFences(s, SkipSpace(s, SkipTag(s, i + 1)))
         ELSE <<s[i]>> \o StripOpeningFences(s, i + 1)

\* Where a match of /```\s*$/m that starts at the fence s[i] ends (the index
\* after it), or 0 when there is none: \s* takes the longest run of
\* whitespace after which the text ends or a newline follows
FenceCloseEnd(s, i) ==
    LET k == SkipSpace(s, i + 1)
        nls == {j \in (i + 1)..(k - 1) : s[j] = "\n"}
    IN  IF k > Len(s) THEN k
        ELSE IF nls # {} THEN MaxOf(nls)
        ELSE 0

\* cleaned.replace(/```\s*$/gm, "") (anchored = FALSE) and
\* cleaned.replace(/^```\s*$/gm, "") (anchored = TRUE), from index i on
RECURSIVE StripClosingFences(_, _, _)
StripClosingFences(s, i, anchored) ==
    IF i > Len(s) THEN <<>>
    ELSE IF /\ s[i] = FENCE
            /\ (anchored => AtLineStart(s, i))
            /\ FenceCloseEnd(s, i) # 0
         THEN StripClosingFences(s, FenceCloseEnd(s, i), anchored)
         ELSE <<s[i]>> \o StripClosingFences(s, i + 1, anchored)

stripCodeFences(code) ==
    IF Falsy(code) THEN code
    ELSE LET c0 == Trim(code)
             c1 == StripOpeningFences(c0, 1)
             c2 == StripClosingFences(c1, 1, FALSE)
             c3 == StripClosingFences(c2, 1, TRUE)
         IN  Trim(c3)

\* source.indexOf(marker, from): 0-based, -1 when absent
IndexOf(source, marker, from) ==
    LET hits == {i \in (from + 1)..Len(source) : source[i] = marker}
    IN  IF hits = {} THEN -1 ELSE MinOf(hits) - 1

\* A sentinel is one element of the text: startMarker.length is 1
extractFromMarker(source, startMarker, endMarker) ==
    LET startIndex == IndexOf(source, startMarker, 0)
        endIndex == IndexOf(source, endMarker, startIndex)
    IN  IF startIndex = -1 THEN NULL
        ELSE Trim(Substring(source, startIndex,
                            IF endIndex = -1 THEN Len(source) ELSE endIndex))
extractBetweenMarkers(source, startMarker, endMarker) ==
    LET startIndex == IndexOf(source, startMarker, 0)
        afterStart == startIndex + 1
        endIndex == IndexOf(source, endMarker, afterStart)
    IN  IF startIndex = -1 THEN NULL
        ELSE Trim(Substring(source, afterStart,
                            IF endIndex = -1 THEN Len(source) ELSE endIndex))

\* generatedContent.match(/```(?:python|py)?[\s\S]*?```/gi): each match runs
\* from a fence to the next fence after it
RECURSIVE FencedBlocks(_, _)
FencedBlocks(s, from) ==
    LET open == IndexOf(s, FENCE, from)
        close == IndexOf(s, FENCE, open + 1)
    IN  IF open = -1 \/ close = -1 THEN <<>>
        ELSE <<Substring(s, open, close + 1)>> \o FencedBlocks(s, close + 1)
allPythonBlocks(s) == FencedBlocks(s, 0)

\* The four .replace(/===\s*..._SCRIPT\s*===/gi, "") of the last resort
RemoveSentinels(s) == SelectSeq(s, LAMBDA c : c \notin Sentinels)

markerSelenium(content) ==
    stripCodeFences(extractBetweenMarkers(content, SEL_OPEN, SEL_CLOSE))
markerPlaywright(content) ==
    stripCodeFences(extractBetweenMarkers(content, PW_OPEN, PW_CLOSE))

\* Primary parsing, fallback parsing, last resort: the scripts of the response
ParseScripts(content) ==
    LET pythonSeleniumScript == markerSelenium(content)
        pythonPlaywrightScript == markerPlaywright(content)
        blocks == allPythonBlocks(content)
    IN  IF Falsy(pythonSeleniumScript) \/ Falsy(pythonPlaywrightScript)
        THEN IF Len(blocks) >= 2
             THEN [python_selenium |-> stripCodeFences(blocks[1]),
                   python_playwright |-> stripCodeFences(blocks[2]),
                   parsing_method |-> "fallback-code-fences"]
             ELSE [python_selenium |-> stripCodeFences(RemoveSentinels(content)),
                   python_playwright |-> NULL,
                   parsing_method |-> "raw-cleaned"]
        ELSE [python_selenium |-> pythonSeleniumScript,
              python_playwright |-> pythonPlaywrightScript,
              parsing_method |-> "primary-markers"]

\* What the model may answer: prose, then the Selenium section, then the
\* Playwright section, then prose; every sentinel may be missing
Prose == {<<>>, <<"p", "\n">>, <<FENCE, "\n", "(", "\n", FENCE, "\n">>}
Trailer == {<<>>, <<"\n", FENCE, "\n", FENCE>>}
SeleniumPayloads == SeqsUpTo(CodeChars, MaxPayloadLen)
PlaywrightPayloads == {<<>>, <<"(">>, <<FENCE, "p", "\n", "(", "\n", FENCE>>}
Optional(marker) == {<<>>, <<marker>>}

Answer(p) ==
    p.pre \o p.selOpen \o p.selenium \o p.selClose \o p.between
          \o p.pwOpen \o p.playwright \o p.pwClose \o p.post

InitRag ==
    /\ ChunkIdle
    /\ ChatIdle
    /\ GenIdle
    /\ CtxIdle
    /\ RestIdle
    /\ parts \in [pre : Prose, selOpen : Optional(SEL_OPEN),
                  selenium : SeleniumPayloads, selClose : Optional(SEL_CLOSE),
                  between : {<<>>, <<"\n">>},
                  pwOpen : Optional(PW_OPEN), playwright : PlaywrightPayloads,
                  pwClose : Optional(PW_CLOSE), post : Trailer]
    /\ generatedContent = Answer(parts)
    /\ scripts = <<>>

\* candidates[0].content.parts[0].text is missing or empty: status 500
RejectEmptyAnswer ==
    /\ scripts = <<>>
    /\ generatedContent = <<>>
    /\ scripts' = [error |-> "Unexpected response structure from Gemini API"]
    /\ UNCHANGED <<parts, generatedContent, chunkVars, genVars, ctxVars, restVars, uiVars>>

\* The 200 response with the parsed scripts
ExtractScripts ==
    /\ scripts = <<>>
    /\ generatedContent # <<>>
    /\ scripts' = ParseScripts(generatedContent)
    /\ UNCHANGED <<parts, generatedContent, chunkVars, genVars, ctxVars, restVars, uiVars>>

NextRag == RejectEmptyAnswer \/ ExtractScripts

SpecRag == InitRag /\ [][NextRag]_vars

Extracted == scripts # <<>> /\ "parsing_method" \in DOMAIN scripts

----------------------------------------------------------------------------
\* C2 .. C5

HasSentinel(code) == \E i \in 1..Len(code) : code[i] \in Sentinels

\* The answer holds the four sentinels, in order
BothSections ==
    /\ parts.selOpen # <<>> /\ parts.selClose # <<>>
    /\ parts.pwOpen # <<>> /\ parts.pwClose # <<>>

\* The text strictly between a sentinel pair, trimmed, fence markers stripped
SeleniumPayload == stripCodeFences(Trim(parts.selenium))
PlaywrightPayload == stripCodeFences(Trim(parts.playwright))

ReturnsBothPayloads ==
    /\ scripts.python_selenium = SeleniumPayload
    /\ scripts.python_playwright = PlaywrightPayload
    /\ ~HasSentinel(scripts.python_selenium)
    /\ ~HasSentinel(scripts.python_playwright)

\* C2 as stated: an answer that holds both sentinel pairs in order yields
\* exactly the two payloads between them, whatever prose surrounds them.
C2_PayloadsAny == (Extracted /\ BothSections) => ReturnsBothPayloads

\* C2 amended: the same when neither payload is empty after trimming and
\* fence stripping.  (An empty payload sends the extractor to its fallbacks,
\* which read the whole answer, prose included.)
C2_Payloads ==
    (Extracted /\ BothSections /\ SeleniumPayload # <<>> /\ PlaywrightPayload # <<>>)
        => ReturnsBothPayloads /\ scripts.parsing_method = "primary-markers"

\* Both sections, fenced code in one of them, prose before and after
C2_Witness ==
    /\ Extracted /\ BothSections
    /\ parts.pre # <<>> /\ parts.post # <<>>
    /\ SeleniumPayload # <<>>
    /\ PlaywrightPayload # <<>> /\ PlaywrightPayload # parts.playwright
    /\ ReturnsBothPayloads

\* C3: for a non-empty answer, both scripts are non-empty when both opening
\* sentinels are found, and the primary script is never empty or null.
C3_ScriptPair ==
    (Extracted /\ generatedContent # <<>>)
        => /\ ~Falsy(scripts.python_selenium)
           /\ (IndexOf(generatedContent, SEL_OPEN, 0) # -1
                   /\ IndexOf(generatedContent, PW_OPEN, 0) # -1)
                => ~Falsy(scripts.python_playwright)

\* C4: when the markers give no usable script, two or more fenced blocks
\* give two non-empty scripts (first block, second block), and no fenced
\* block gives the fence-stripped answer as a non-empty primary, no alternate.
C4_Fallback ==
    (/\ Extracted
     /\ Falsy(markerSelenium(generatedContent))
     /\ Falsy(markerPlaywright(generatedContent)))
        => LET blocks == allPythonBlocks(generatedContent)
           IN  /\ Len(blocks) >= 2 =>
                    /\ scripts.python_selenium = stripCodeFences(blocks[1])
                    /\ scripts.python_playwright = stripCodeFences(blocks[2])
                    /\ ~Falsy(scripts.python_selenium)
                    /\ ~Falsy(scripts.python_playwright)
               /\ Len(blocks) = 0 =>
                    /\ scripts.python_selenium = stripCodeFences(generatedContent)
                    /\ ~Falsy(scripts.python_selenium)
                    /\ scripts.python_playwright = NULL

\* C5: a marker-extracted primary without an alternate, and fewer than two
\* fenced blocks: the primary returned is the marker-extracted one.
C5_KeepsPrimary ==
    (/\ Extracted
     /\ ~Falsy(markerSelenium(generatedContent))
     /\ Falsy(markerPlaywright(generatedContent))
     /\ Len(allPythonBlocks(generatedContent)) < 2)
        => /\ scripts.python_selenium = markerSelenium(generatedContent)
           /\ Falsy(scripts.python_playwright)

\* C28: no script of a response, whichever way it was extracted, contains one
\* of the four sentinels.
C28_NoSentinel ==
    Extracted => \A f \in {"python_selenium", "python_playwright"} :
                     ~Falsy(scripts[f]) => ~HasSentinel(scripts[f])

----------------------------------------------------------------------------
\* ChatInterface: the run-configuration detector

\* Lexemes of a generated script.  Each stands for text that the detector's
\* regular expressions take or leave as a whole.
CONFIG_COMMENT == "# Configuration"
DEF_MAIN == "def main("
MAIN_GUARD == "if __name__ =="
YOUR_PASSWORD == "your_password_here"
EXAMPLE_COM == "example.com"
DQ == "\""
SQ == "'"
BS == "\\"
Identifiers == {"PASSWORD", "SEARCH_TERM", "BASE_URL"}

\* code.split(/\r?\n/)
RECURSIVE SplitLines(_)
SplitLines(code) ==
    LET nl == IndexOf(code, "\n", 0)
    IN  IF nl = -1 THEN <<code>>
        ELSE <<Substring(code, 0, nl)>> \o SplitLines(Substring(code, nl + 1, Len(code)))

Contains(s, c) == \E i \in 1..Len(s) : s[i] = c

\* /#\s*-+\s*configuration/i.test(trimmed) || /#\s*configuration/i.test(trimmed)
IsConfigHeader(trimmed) == Contains(trimmed, CONFIG_COMMENT)

\* /^def\s+\w+\s*\(/.test(trimmed) || /^if __name__\s*==/.test(trimmed)
IsStopLine(trimmed) == trimmed # <<>> /\ trimmed[1] \in {DEF_MAIN, MAIN_GUARD}

\* The name tests, on the identifiers of the model (lowerName)
IsSelectorName(name) == FALSE
IsCredential(name) == name = "PASSWORD"
IsIdentity(name) == FALSE
IsUrl(name) == name = "BASE_URL"
IsPathLike(name) == FALSE
IsSearchLike(name) == name = "SEARCH_TERM"

\* /your_|example\.com|<|TODO/i.test(dv)
LooksPlaceholder(dv) == Contains(dv, YOUR_PASSWORD) \/ Contains(dv, EXAMPLE_COM)

\* /^([A-Z_][A-Z0-9_]*)\s*=\s*(.+)$/.exec(trimmed): <<name, rawValue>> or <<>>
MatchAssignment(trimmed) ==
    IF trimmed = <<>> \/ trimmed[1] \notin Identifiers THEN <<>>
    ELSE LET eq == SkipSpace(trimmed, 2)
             val == SkipSpace(trimmed, eq + 1)
         IN  IF eq <= Len(trimmed) /\ trimmed[eq] = "=" /\ val <= Len(trimmed)
             THEN <<trimmed[1], SubSeq(trimmed, val, Len(trimmed))>>
             ELSE <<>>

\* rawValue.trim().match(/^(['"])(.*)\1/): <<the text of group 2>> or <<>>
MatchStringLiteral(rawValue) ==
    LET v == Trim(rawValue)
        closing == {j \in 2..Len(v) : v[j] = v[1]}
    IN  IF v # <<>> /\ v[1] \in {DQ, SQ} /\ closing # {}
        THEN <<SubSeq(v, 2, MaxOf(closing) - 1)>>
        ELSE <<>>

ShouldAskUser(name, dv) ==
    \/ IsCredential(name)
    \/ IsIdentity(name)
    \/ IsSearchLike(name)
    \/ LooksPlaceholder(dv)
    \/ ((IsUrl(name) \/ IsPathLike(name)) /\ (LooksPlaceholder(dv) \/ Trim(dv) = <<>>))

\* One iteration of the loop, past the section tests: the field pushed, if any
FieldOfLine(trimmed) ==
    LET m == MatchAssignment(trimmed)
        str == IF m = <<>> THEN <<>> ELSE MatchStringLiteral(m[2])
    IN  IF m = <<>> \/ str = <<>> THEN <<>>
        ELSE IF IsSelectorName(m[1]) THEN <<>>
        ELSE IF ~ShouldAskUser(m[1], str[1]) THEN <<>>
        ELSE <<[name |-> m[1], defaultValue |-> str[1]]>>

RECURSIVE ScanLines(_, _, _)
ScanLines(lines, i, inConfig) ==
    IF i > Len(lines) THEN <<>>
    ELSE LET trimmed == Trim(lines[i])
         IN  IF ~inConfig /\ IsConfigHeader(trimmed) THEN ScanLines(lines, i + 1, TRUE)
             ELSE IF ~inConfig THEN ScanLines(lines, i + 1, FALSE)
             ELSE IF IsStopLine(trimmed) THEN <<>>
             ELSE FieldOfLine(trimmed) \o ScanLines(lines, i + 1, TRUE)

extractRunConfigFields(code) == ScanLines(SplitLines(code), 1, FALSE)

----------------------------------------------------------------------------
\* ChatInterface: the run-configuration applier

\* raw.replace(/\\/g, "\\\\").replace(/"/g, '\\"')
RECURSIVE EscapeChar(_, _)
EscapeChar(s, c) ==
    IF s = <<>> THEN <<>>
    ELSE (IF Head(s) = c THEN <<BS, c>> ELSE <<Head(s)>>) \o EscapeChar(Tail(s), c)
SafeValue(raw) == EscapeChar(EscapeChar(raw, BS), DQ)

\* runConfig[field.name] ?? field.defaultValue (?? ""): a field always
\* carries the defaultValue the detector matched
ConfigValue(field, config) ==
    IF field.name \in DOMAIN config THEN config[field.name] ELSE field.defaultValue

\* The first match of new RegExp(`^\\s*${name}\\s*=.*$`, "m") in code, as
\* <<start, end>> (1-based, inclusive; the match is never empty), or <<>>
FindAssignment(code, name) ==
    LET EqualsAt(p) == SkipSpace(code, SkipSpace(code, p) + 1)
        Matches(p) ==
            /\ AtLineStart(code, p)
            /\ SkipSpace(code, p) <= Len(code)
            /\ code[SkipSpace(code, p)] = name
            /\ EqualsAt(p) <= Len(code)
            /\ code[EqualsAt(p)] = "="
        starts == {p \in 1..Len(code) : Matches(p)}
    IN  IF starts = {} THEN <<>>
        ELSE LET p == MinOf(starts)
                 nl == IndexOf(code, "\n", EqualsAt(p))
             IN  <<p, IF nl = -1 THEN Len(code) ELSE nl>>

\* The patterns of a replacement string that String.prototype.replace
\* expands: $$, $&, $' and $ before a backtick (BQ); with no capture group
\* in the pattern, $1.. are text
BQ == "BQ"
RECURSIVE ExpandReplacement(_, _, _, _, _)
ExpandReplacement(repl, i, before, matched, after) ==
    IF i > Len(repl) THEN <<>>
    ELSE IF repl[i] = "$" /\ i < Len(repl) /\ repl[i + 1] = "$"
         THEN <<"$">> \o ExpandReplacement(repl, i + 2, before, matched, after)
    ELSE IF repl[i] = "$" /\ i < Len(repl) /\ repl[i + 1] = "&"
         THEN matched \o ExpandReplacement(repl, i + 2, before, matched, after)
    ELSE IF repl[i] = "$" /\ i < Len(repl) /\ repl[i + 1] = SQ
         THEN after \o ExpandReplacement(repl, i + 2, before, matched, after)
    ELSE IF repl[i] = "$" /\ i < Len(repl) /\ repl[i + 1] = BQ
         THEN before \o ExpandReplacement(repl, i + 2, before, matched, after)
    ELSE <<repl[i]>> \o ExpandReplacement(repl, i + 1, before, matched, after)

Replacement(name, safeValue) == <<name, " ", "=", " ", DQ>> \o safeValue \o <<DQ>>

\* The forEach callback: one field applied to `configured`
ApplyFieldAtEnd(configured, field, config) ==
    LET raw == Trim(ConfigValue(field, config))
        replacement == Replacement(field.name, SafeValue(raw))
    IN  IF raw = <<>> THEN configured
        ELSE configured \o <<"\n">> \o replacement
ApplyField(configured, field, config) ==
    LET raw == Trim(ConfigValue(field, config))
        replacement == Replacement(field.name, SafeValue(raw))
        m == FindAssignment(configured, field.name)
    IN  IF raw = <<>> THEN configured
        ELSE IF m # <<>>
             THEN LET before == SubSeq(configured, 1, m[1] - 1)
                      matched == SubSeq(configured, m[1], m[2])
                      after == SubSeq(configured, m[2] + 1, Len(configured))
                  IN  before \o ExpandReplacement(replacement, 1, before, matched, after) \o after
             ELSE replacement \o <<"\n">> \o configured

\* `configured` after the first n fields
RECURSIVE ApplyFields(_, _, _, _)
ApplyFields(code, fields, config, n) ==
    IF n = 0 THEN code
    ELSE ApplyField(ApplyFields(code, fields, config, n - 1), fields[n], config)

buildConfiguredRunCode(code, fields, config) ==
    IF Falsy(code) THEN NULL ELSE ApplyFields(code, fields, config, Len(fields))

----------------------------------------------------------------------------
\* ChatInterface: the handlers

\* The requests the component sends for a run
INVOKE_START_JOB == "functions.invoke start-selenium-job"
SELECT_JOB == "from automation_jobs select"

\* A state setter: React drops the update of a component that has unmounted
SetState(new, old) == IF mounted THEN new ELSE old

\* A finally block that leaves runStep as it is
FinallyKeepsStep ==
    /\ isRunExecuting' = SetState(FALSE, isRunExecuting)
    /\ runStep' = runStep
    /\ jobScript' = NULL
    /\ runPc' = "none"

\* The finally block of executeSeleniumRun, and the function returning
Finally ==
    /\ isRunExecuting' = SetState(FALSE, isRunExecuting)
    /\ runStep' = SetState("idle", runStep)
    /\ jobScript' = NULL
    /\ runPc' = "none"

\* runConfigFields.filter(...).map((field) => field.name) of handleSubmitRunConfig
RECURSIVE MissingUntrimmed(_, _)
MissingUntrimmed(fields, config) ==
    IF fields = <<>> THEN <<>>
    ELSE (IF ConfigValue(Head(fields), config) = <<>>
          THEN <<Head(fields).name>> ELSE <<>>)
             \o MissingUntrimmed(Tail(fields), config)
RECURSIVE MissingFields(_, _)
MissingFields(fields, config) ==
    IF fields = <<>> THEN <<>>
    ELSE (IF Trim(ConfigValue(Head(fields), config)) = <<>>
          THEN <<Head(fields).name>> ELSE <<>>)
             \o MissingFields(Tail(fields), config)

FieldNames(fields) == {fields[i].name : i \in 1..Len(fields)}

\* initialValues[field.name] = field.defaultValue ?? "": a later field of the
\* same name overwrites an earlier one
InitialValues(fields) ==
    [n \in FieldNames(fields) |->
        fields[MaxOf({i \in 1..Len(fields) : fields[i].name = n})].defaultValue]

\* handleSend, once generate-script-rag has answered with a Selenium script
HandleSendSucceeds(pythonScript) ==
    /\ mounted
    /\ runConfigFields' = extractRunConfigFields(pythonScript)
    /\ runConfig' = InitialValues(extractRunConfigFields(pythonScript))
    /\ generatedScripts' = pythonScript
    /\ sendPc' = IF sendPc = "invoking" THEN "idle" ELSE sendPc
    /\ UNCHANGED <<pendingRunCode, runStep, isRunExecuting, jobScript, toast>>
    /\ UNCHANGED <<sopDocuments, userMessage>>
    /\ UNCHANGED <<runVars, chunkVars, ragVars, genVars, ctxVars, loopVars, docVars,
                   pfVars, auxVars>>

\* The Run button of the code viewer (rendered once there are scripts,
\* disabled while a run executes)
HandleRunRequestedFromViewer ==
    /\ mounted
    /\ generatedScripts # NULL
    /\ ~isRunExecuting
    /\ IF Falsy(generatedScripts)
       THEN /\ toast' = [kind |-> "no-script", names |-> <<>>]
            /\ UNCHANGED <<pendingRunCode, runStep>>
       ELSE /\ pendingRunCode' = generatedScripts
            /\ runStep' = "collecting"
            /\ UNCHANGED toast
    /\ runOutput' = IF Falsy(generatedScripts) THEN runOutput ELSE NULL
    /\ UNCHANGED <<generatedScripts, runConfigFields, runConfig, isRunExecuting, jobScript>>
    /\ UNCHANGED <<mounted, runPc, attempt, reads, lastJob, latestScreenshotUrl,
                   requests, clock, lastReadAt>>
    /\ UNCHANGED serverVars

\* onChange of an input of the Required Configs form
SetRunConfig(name, value) ==
    /\ mounted
    /\ runStep = "collecting"
    /\ name \in FieldNames(runConfigFields)
    /\ runConfig' = [n \in DOMAIN runConfig \cup {name} |->
                        IF n = name THEN value ELSE runConfig[n]]
    /\ UNCHANGED <<generatedScripts, runConfigFields, pendingRunCode, runStep,
                   isRunExecuting, jobScript, toast>>
    /\ UNCHANGED <<runVars, serverVars>>

\* Submit & Run: handleSubmitRunConfig and executeSeleniumRun up to the
\* invocation of start-selenium-job
HandleSubmitRunConfig ==
    /\ mounted
    /\ runStep = "collecting"
    /\ ~isRunExecuting
    /\ LET missing == MissingFields(runConfigFields, runConfig)
           configuredCode ==
               buildConfiguredRunCode(pendingRunCode, runConfigFields, runConfig)
       IN  IF missing # <<>>
           THEN /\ toast' = [kind |-> "missing", names |-> missing]
                /\ UNCHANGED <<runStep, isRunExecuting, jobScript, runVars>>
           ELSE IF Falsy(configuredCode)
           THEN /\ toast' = [kind |-> "no-script", names |-> <<>>]
                /\ runStep' = "idle"
                /\ UNCHANGED <<isRunExecuting, jobScript, runVars>>
           ELSE /\ runStep' = "running"
                /\ isRunExecuting' = TRUE
                /\ jobScript' = configuredCode
                /\ runOutput' = NULL
                /\ latestScreenshotUrl' = NULL
                /\ runPc' = "starting"
                /\ requests' = {INVOKE_START_JOB}
                /\ attempt' = 0
                /\ reads' = 0
                /\ lastJob' = NoJob
                /\ clock' = 0
                /\ lastReadAt' = 0
                /\ UNCHANGED <<toast, mounted>>
    /\ UNCHANGED <<generatedScripts, runConfigFields, runConfig, pendingRunCode>>
    /\ UNCHANGED serverVars

\* The Cancel button of the form
HandleCancelRunConfig ==
    /\ mounted
    /\ runStep = "collecting"
    /\ ~isRunExecuting
    /\ runStep' = "idle"
    /\ pendingRunCode' = NULL
    /\ UNCHANGED <<generatedScripts, runConfigFields, runConfig, isRunExecuting,
                   jobScript, toast>>
    /\ UNCHANGED <<runVars, serverVars>>

\* executeSeleniumRun leaves its try block, whatever the outcome of the job
RunSettles ==
    /\ isRunExecuting
    /\ Finally
    /\ UNCHANGED <<generatedScripts, runConfigFields, runConfig, pendingRunCode, toast>>
    /\ UNCHANGED <<mounted, attempt, reads, lastJob, runOutput, latestScreenshotUrl,
                   requests, clock, lastReadAt>>
    /\ UNCHANGED serverVars


\* pollJob gives up once attempt exceeds this; the pause between two reads
MAX_POLL_ATTEMPT == 150
POLL_DELAY_MS == 2000

\* The rows a read of automation_jobs may return: the worker writes status,
\* latest_screenshot_url, the log text and, on failure, error_message
StatusesNotCompleted == {"queued", "running", "failed"}
PendingStatuses == {"queued", "running"}
JobStatuses == PendingStatuses \cup {"completed", "failed"}
JobRows ==
    {j \in [status : JobStatuses,
            latest_screenshot_url : {NULL, <<"screenshot.png">>},
            log_output : {NULL, <<"log line">>},
            error_message : {NULL, <<"worker error">>}] :
        j.error_message # NULL => j.status = "failed"}

\* The texts of the run output
TIMED_OUT == "Timed out waiting for cloud job to finish."
POLL_FAILED == "Failed to poll job status"
START_FAILED == "Failed to enqueue or monitor cloud job"
COMPLETED_OK == "Cloud job completed successfully."
STATUS_PREFIX == "Status: "
FAILED_PREFIX == "Cloud job failed with status: "

RunOutput(stdout, error) == [stdout |-> stdout, stderr |-> <<>>, error |-> error]
Toast(kind) == [kind |-> kind, names |-> <<>>]

\* pollJob past its attempt test: the select on automation_jobs is sent
SendsRead ==
    /\ runPc' = "polling"
    /\ reads' = reads + 1
    /\ requests' = requests \cup {SELECT_JOB}
    /\ lastReadAt' = clock'

\* job?.latest_screenshot_url, shown when there is one
ShowsScreenshot(job) ==
    latestScreenshotUrl' =
        SetState(IF Falsy(job.latest_screenshot_url) THEN latestScreenshotUrl
                 ELSE job.latest_screenshot_url,
                 latestScreenshotUrl)

\* start-selenium-job answers with an error or without a jobId: the catch block
StartJobFails ==
    /\ runPc = "starting"
    /\ runOutput' = SetState(RunOutput(<<>>, <<START_FAILED>>), runOutput)
    /\ toast' = Toast("start-failed")
    /\ Finally
    /\ UNCHANGED <<generatedScripts, runConfigFields, runConfig, pendingRunCode>>
    /\ UNCHANGED <<mounted, attempt, reads, lastJob, latestScreenshotUrl, requests,
                   clock, lastReadAt>>
    /\ UNCHANGED serverVars

\* start-selenium-job answers with a jobId: pollJob() is called
StartJobReturns ==
    /\ runPc = "starting"
    /\ toast' = Toast("job-queued")
    /\ clock' = clock
    /\ SendsRead
    /\ UNCHANGED <<generatedScripts, runConfigFields, runConfig, pendingRunCode,
                   runStep, isRunExecuting, jobScript>>
    /\ UNCHANGED <<mounted, attempt, lastJob, runOutput, latestScreenshotUrl>>
    /\ UNCHANGED serverVars

\* The read fails (jobError)
PollJobError ==
    /\ runPc = "polling"
    /\ runOutput' = SetState(RunOutput(<<>>, <<POLL_FAILED>>), runOutput)
    /\ toast' = Toast("poll-failed")
    /\ lastJob' = NoJob
    /\ Finally
    /\ UNCHANGED <<generatedScripts, runConfigFields, runConfig, pendingRunCode>>
    /\ UNCHANGED <<mounted, attempt, reads, latestScreenshotUrl, requests, clock,
                   lastReadAt>>
    /\ UNCHANGED serverVars

\* The read returns a job that is queued or running: the 2 s timer is set
PollJobPending(job) ==
    /\ runPc = "polling"
    /\ job.status \in PendingStatuses
    /\ lastJob' = job
    /\ ShowsScreenshot(job)
    /\ runOutput' = SetState(RunOutput(<<STATUS_PREFIX, job.status>>, NULL), runOutput)
    /\ runPc' = "waiting"
    /\ UNCHANGED <<generatedScripts, runConfigFields, runConfig, pendingRunCode,
                   runStep, isRunExecuting, jobScript, toast>>
    /\ UNCHANGED <<mounted, attempt, reads, requests, clock, lastReadAt>>
    /\ UNCHANGED serverVars

\* The read returns a job in any other status: pollJob returns
PollJobTerminal(job) ==
    /\ runPc = "polling"
    /\ job.status \notin PendingStatuses
    /\ lastJob' = job
    /\ ShowsScreenshot(job)
    /\ LET logText == IF job.log_output = NULL THEN <<>> ELSE job.log_output
       IN  IF job.status = "completed"
           THEN /\ runOutput' =
                      SetState(RunOutput(IF logText = <<>> THEN <<COMPLETED_OK>>
                                         ELSE logText, NULL), runOutput)
                /\ toast' = Toast("completed")
           ELSE /\ runOutput' =
                      SetState(RunOutput(logText,
                                         IF Falsy(job.error_message)
                                         THEN <<FAILED_PREFIX, job.status>>
                                         ELSE job.error_message), runOutput)
                /\ toast' = Toast("job-failed")
    /\ Finally
    /\ UNCHANGED <<generatedScripts, runConfigFields, runConfig, pendingRunCode>>
    /\ UNCHANGED <<mounted, attempt, reads, requests, clock, lastReadAt>>
    /\ UNCHANGED serverVars

\* The timer fires and pollJob(attempt + 1) reads again
PollAgain ==
    /\ runPc = "waiting"
    /\ ~(attempt + 1 > MAX_POLL_ATTEMPT)
    /\ attempt' = attempt + 1
    /\ clock' = clock + POLL_DELAY_MS
    /\ SendsRead
    /\ UNCHANGED <<generatedScripts, runConfigFields, runConfig, pendingRunCode,
                   runStep, isRunExecuting, jobScript, toast>>
    /\ UNCHANGED <<mounted, lastJob, runOutput, latestScreenshotUrl>>
    /\ UNCHANGED serverVars

\* The timer fires and pollJob(attempt + 1) gives up
PollTimesOut ==
    /\ runPc = "waiting"
    /\ attempt + 1 > MAX_POLL_ATTEMPT
    /\ attempt' = attempt + 1
    /\ clock' = clock + POLL_DELAY_MS
    /\ runOutput' = SetState(RunOutput(<<>>, <<TIMED_OUT>>), runOutput)
    /\ toast' = Toast("timeout")
    /\ Finally
    /\ UNCHANGED <<generatedScripts, runConfigFields, runConfig, pendingRunCode>>
    /\ UNCHANGED <<mounted, reads, lastJob, latestScreenshotUrl, requests, lastReadAt>>
    /\ UNCHANGED serverVars

\* The user leaves the page: the component unmounts (it registers no cleanup)
Unmount ==
    /\ mounted
    /\ mounted' = FALSE
    /\ UNCHANGED <<chatVars, serverVars>>
    /\ UNCHANGED <<runPc, attempt, reads, lastJob, runOutput, latestScreenshotUrl,
                   requests, clock, lastReadAt>>

\* Selenium scripts the generation may return
Lines2(a, b) == a \o <<"\n">> \o b
Lines3(a, b, c) == a \o <<"\n">> \o b \o <<"\n">> \o c
Lines4(a, b, c, d) == a \o <<"\n">> \o b \o <<"\n">> \o c \o <<"\n">> \o d

PasswordLine == <<"PASSWORD", " ", "=", " ", DQ, YOUR_PASSWORD, DQ>>
SearchTermLine == <<"SEARCH_TERM", " ", "=", " ", DQ, DQ>>
BaseUrlLine == <<"BASE_URL", " ", "=", " ", DQ, EXAMPLE_COM, DQ>>

HeaderScript == Lines3(PasswordLine, SearchTermLine, <<DEF_MAIN>>)
CommentedScript == Lines4(<<CONFIG_COMMENT>>, PasswordLine, SearchTermLine, <<DEF_MAIN>>)
CredentialScript == Lines3(<<CONFIG_COMMENT>>, PasswordLine, <<DEF_MAIN>>)
UrlScript == Lines4(<<CONFIG_COMMENT>>, <<>>, <<" ">> \o BaseUrlLine, <<DEF_MAIN>>)

\* What the user may type into an input of the form
FormValues == SeqsUpTo({"x", " "}, MaxEntryLen)
EscapedValues == SeqsUpTo({DQ, BS, "$"}, MaxValueLen)

ChatNext(answers, values) ==
    \/ \E pythonScript \in answers : HandleSendSucceeds(pythonScript)
    \/ HandleRunRequestedFromViewer
    \/ \E name \in Identifiers, value \in values :
           SetRunConfig(name, value)
    \/ HandleSubmitRunConfig
    \/ HandleCancelRunConfig
    \/ RunSettles

InitChat == ChunkIdle /\ RagIdle /\ ChatIdle /\ GenIdle /\ CtxIdle /\ RestIdle

\* The component, with scripts of up to two fields
Next == ChatNext({<<>>, HeaderScript, CommentedScript, UrlScript}, FormValues)
Spec == InitChat /\ [][Next]_vars

\* The component, with scripts of one field and values that need escaping
NextConfig == ChatNext({CredentialScript, UrlScript}, EscapedValues)
SpecConfig == InitChat /\ [][NextConfig]_vars

\* The component with one script, and the run followed read by read
NextRun ==
    \/ HandleSendSucceeds(CredentialScript)
    \/ HandleRunRequestedFromViewer
    \/ \E value \in {<<>>, <<"x">>} : SetRunConfig("PASSWORD", value)
    \/ HandleSubmitRunConfig
    \/ HandleCancelRunConfig
    \/ StartJobFails
    \/ StartJobReturns
    \/ PollJobError
    \/ \E job \in JobRows : PollJobPending(job)
    \/ \E job \in JobRows : PollJobTerminal(job)
    \/ PollAgain
    \/ PollTimesOut
    \/ Unmount
SpecRun == InitChat /\ [][NextRun]_vars

----------------------------------------------------------------------------
\* generate-script: validation, the retry loop on the primary provider, the
\* fallback provider

\* const maxRetries = 3; max(10000) of messageSchema
maxRetries == 3
MAX_MESSAGE_LEN == 10000

\* A message by its length: `core` characters between `pad` characters of
\* surrounding whitespace
Message(pad, core) == [pad |-> pad, core |-> core]
MessageLength(m) == m.pad + m.core
Messages ==
    {Message(pad, core) : pad \in {0, 1},
                          core \in {0, 1, MAX_MESSAGE_LEN, MAX_MESSAGE_LEN + 1}}

\* messageSchema.safeParse(body).success: trim, then min(1) and max(10000)
NonEmptyMessage(m) == m.core >= 1
ValidMessage(m) == m.core >= 1 /\ m.core <= MAX_MESSAGE_LEN

\* The answers of the primary provider: a status and a body text
ProviderResponses ==
    {[status |-> st, body |-> b] : st \in {200, 401, 429, 500},
                                   b \in {<<>>, <<"body">>}}
Ok(resp) == resp.status = 200

\* How an attempt on the primary provider ended
OutcomeOf(resp) ==
    IF Ok(resp) THEN "ok" ELSE IF resp.status = 429 THEN "rate-limited" ELSE "http-error"

Reply(status, body) == [status |-> status, body |-> body]

\* `lastError ||`: undefined and the empty text are falsy
LastErrorFalsy(err) == err \in {"undefined", "empty"}

\* The code after the loop, reached with `resp` in response, `err` in
\* lastError and the body of resp read `used` times already
AfterLoop(resp, err, used) ==
    IF resp # NoResponse /\ Ok(resp)
    THEN /\ genPc' = "replied"
         /\ genReply' = Reply(200, "script")
         /\ UNCHANGED fallbackCalls
    ELSE IF resp # NoResponse /\ LastErrorFalsy(err) /\ used
         \* response.text() on a body already read rejects: the outer catch
         THEN /\ genPc' = "replied"
              /\ genReply' = Reply(500, "error")
              /\ UNCHANGED fallbackCalls
    ELSE IF resp.status = 429
         THEN IF lovableKey
              THEN /\ genPc' = "fallback"
                   /\ fallbackCalls' = fallbackCalls + 1
                   /\ UNCHANGED genReply
              ELSE /\ genPc' = "replied"
                   /\ genReply' = Reply(429, "rate-limit")
                   /\ UNCHANGED fallbackCalls
    ELSE IF resp.status = 401
         THEN /\ genPc' = "replied"
              /\ genReply' = Reply(401, "invalid-key")
              /\ UNCHANGED fallbackCalls
    ELSE /\ genPc' = "replied"
         /\ genReply' = Reply(500, "error")
         /\ UNCHANGED fallbackCalls

\* A request arrives: validation, the key test, the first fetch
GenRequest(message, document) ==
    /\ genPc = "idle"
    /\ genRequest' = [message |-> message, document |-> document]
    /\ IF ~ValidMessage(message)
       THEN /\ genPc' = "replied"
            /\ genReply' = Reply(400, "validation")
       ELSE IF ~openaiKey
       THEN /\ genPc' = "replied"
            /\ genReply' = Reply(500, "error")
       ELSE /\ genPc' = "calling"
            /\ UNCHANGED genReply
    /\ inFlight' = IF genPc' = "calling" THEN inFlight + 1 ELSE inFlight
    /\ UNCHANGED <<genClock, retryAt, waits>>
    /\ UNCHANGED <<openaiKey, lovableKey, genAttempt, response, lastError, outcomes,
                   fallbackCalls>>
    /\ UNCHANGED <<chunkVars, ragVars, ctxVars, restVars, uiVars>>

\* const waitTime = Math.pow(2, attempt) * 1000
WaitTimeFixed(k) == 1000
WaitTime(k) == 2^k * 1000

\* setTimeout(resolve, waitTime)
SetsTimer ==
    /\ retryAt' = genClock + WaitTime(genAttempt)
    /\ waits' = Append(waits, WaitTime(genAttempt))

\* The fetch of the primary provider resolves
PrimaryResponds(resp) ==
    /\ genPc = "calling"
    /\ response' = resp
    /\ outcomes' = Append(outcomes, OutcomeOf(resp))
    /\ IF Ok(resp) \/ resp.status # 429
       THEN /\ AfterLoop(resp, lastError, FALSE)
            /\ UNCHANGED <<genAttempt, lastError>>
       ELSE IF genAttempt < maxRetries - 1
       THEN /\ genPc' = "backoff"
            /\ UNCHANGED <<genAttempt, lastError, fallbackCalls, genReply>>
       ELSE /\ lastError' = IF resp.body = <<>> THEN "empty" ELSE "text"
            /\ genAttempt' = genAttempt + 1
            /\ AfterLoop(resp, lastError', TRUE)
    /\ inFlight' = inFlight - 1
    /\ IF genPc' = "backoff" THEN SetsTimer ELSE UNCHANGED <<retryAt, waits>>
    /\ UNCHANGED genClock
    /\ UNCHANGED <<genRequest, openaiKey, lovableKey>>
    /\ UNCHANGED <<chunkVars, ragVars, ctxVars, restVars, uiVars>>

\* The fetch of the primary provider rejects (a network exception)
PrimaryThrows ==
    /\ genPc = "calling"
    /\ lastError' = "exception"
    /\ outcomes' = Append(outcomes, "exception")
    /\ IF genAttempt < maxRetries - 1
       THEN /\ genPc' = "backoff"
            /\ UNCHANGED <<genAttempt, fallbackCalls, genReply>>
       ELSE /\ genAttempt' = genAttempt + 1
            /\ AfterLoop(response, "exception", FALSE)
    /\ inFlight' = inFlight - 1
    /\ IF genPc' = "backoff" THEN SetsTimer ELSE UNCHANGED <<retryAt, waits>>
    /\ UNCHANGED genClock
    /\ UNCHANGED <<genRequest, openaiKey, lovableKey, response>>
    /\ UNCHANGED <<chunkVars, ragVars, ctxVars, restVars, uiVars>>

\* Time passes while the function waits on the timer
TICK_MS == 1000
BackoffTick ==
    /\ genPc = "backoff"
    /\ genClock < retryAt
    /\ genClock' = genClock + TICK_MS
    /\ UNCHANGED <<genRequest, openaiKey, lovableKey, genPc, genAttempt, response,
                   lastError, outcomes, fallbackCalls, genReply, inFlight, retryAt, waits>>
    /\ UNCHANGED <<chunkVars, ragVars, ctxVars, restVars, uiVars>>

\* The backoff timer (2^attempt seconds) fires: continue, the next fetch
BackoffEnds ==
    /\ genPc = "backoff"
    /\ genClock >= retryAt
    /\ genAttempt' = genAttempt + 1
    /\ genPc' = "calling"
    /\ inFlight' = inFlight + 1
    /\ UNCHANGED <<genClock, retryAt, waits>>
    /\ UNCHANGED <<genRequest, openaiKey, lovableKey, response, lastError, outcomes,
                   fallbackCalls, genReply>>
    /\ UNCHANGED <<chunkVars, ragVars, ctxVars, restVars, uiVars>>

\* The fetch of the fallback provider resolves
FallbackResponds(ok) ==
    /\ genPc = "fallback"
    /\ genPc' = "replied"
    /\ genReply' = IF ok THEN Reply(200, "fallback-script") ELSE Reply(429, "rate-limit")
    /\ UNCHANGED timerVars
    /\ UNCHANGED <<genRequest, openaiKey, lovableKey, genAttempt, response, lastError,
                   outcomes, fallbackCalls>>
    /\ UNCHANGED <<chunkVars, ragVars, ctxVars, restVars, uiVars>>

\* The fetch of the fallback provider rejects
FallbackThrows ==
    /\ genPc = "fallback"
    /\ genPc' = "replied"
    /\ genReply' = Reply(429, "rate-limit")
    /\ UNCHANGED timerVars
    /\ UNCHANGED <<genRequest, openaiKey, lovableKey, genAttempt, response, lastError,
                   outcomes, fallbackCalls>>
    /\ UNCHANGED <<chunkVars, ragVars, ctxVars, restVars, uiVars>>

\* One invocation of the function, in any environment
InitGen ==
    /\ ChunkIdle /\ RagIdle /\ ChatIdle /\ CtxIdle /\ RestIdle
    /\ genRequest = NoRequest
    /\ openaiKey \in BOOLEAN
    /\ lovableKey \in BOOLEAN
    /\ genPc = "idle"
    /\ genAttempt = 0
    /\ response = NoResponse
    /\ lastError = "undefined"
    /\ outcomes = <<>>
    /\ fallbackCalls = 0
    /\ genReply = NoReply
    /\ TimerIdle

NextGen ==
    \/ \E message \in Messages, document \in BOOLEAN : GenRequest(message, document)
    \/ \E resp \in ProviderResponses : PrimaryResponds(resp)
    \/ PrimaryThrows
    \/ BackoffTick
    \/ BackoffEnds
    \/ \E ok \in BOOLEAN : FallbackResponds(ok)
    \/ FallbackThrows
SpecGen == InitGen /\ [][NextGen]_vars

----------------------------------------------------------------------------
\* Context assembly from the points of the index (retrieval variant of
\* generate-script-rag), for the points process-sop stores

\* content: chunk.substring(0, 500)
PREVIEW_LEN == 500

\* points of process-sop: chunk i of the document is stored with chunk_index i
PointsOf(cs) ==
    [i \in 1..Len(cs) |-> [chunk_index |-> i - 1,
                           content |-> Substring(cs[i], 0, PREVIEW_LEN)]]

\* The orders in which the index may return the points
ReturnOrders(ps) ==
    {[i \in 1..Len(ps) |-> ps[f[i]]] :
        f \in {g \in [1..Len(ps) -> 1..Len(ps)] :
                  \A i, j \in 1..Len(ps) : g[i] = g[j] => i = j}}

\* points.sort((a, b) => a.payload.chunk_index - b.payload.chunk_index):
\* Array.prototype.sort is stable
Unsorted(ps) == ps
RECURSIVE InsertPoint(_, _)
InsertPoint(sorted, p) ==
    IF sorted = <<>> THEN <<p>>
    ELSE IF sorted[Len(sorted)].chunk_index - p.chunk_index <= 0
         THEN Append(sorted, p)
         ELSE Append(InsertPoint(SubSeq(sorted, 1, Len(sorted) - 1), p),
                     sorted[Len(sorted)])
RECURSIVE SortedFrom(_, _)
SortedFrom(ps, n) ==
    IF n = 0 THEN <<>> ELSE InsertPoint(SortedFrom(ps, n - 1), ps[n])
sortedPoints(ps) == SortedFrom(ps, Len(ps))

\* allChunks.join('\n')
RECURSIVE Join(_, _)
Join(texts, sep) ==
    IF texts = <<>> THEN <<>>
    ELSE IF Len(texts) = 1 THEN texts[1]
    ELSE texts[1] \o sep \o Join(Tail(texts), sep)

CONTEXT_OPEN == "\n\n=== COMPLETE SOP DOCUMENT (ALL CHUNKS) ===\n"
CONTEXT_CLOSE == "\n=== END OF SOP DOCUMENT ===\n"

\* const context = allChunks.length > 0 ? ... : ''
ContextOf(cs) ==
    IF Len(cs) > 0 THEN <<CONTEXT_OPEN>> \o Join(cs, <<"\n">>) \o <<CONTEXT_CLOSE>>
    ELSE <<>>

\* The scroll request answers with the points, in the order of the index
ScrollReturns ==
    /\ ctxPc = "scrolling"
    /\ allChunks' = [i \in 1..Len(scrollPoints) |-> sortedPoints(scrollPoints)[i].content]
    /\ context' = ContextOf(allChunks')
    /\ ctxPc' = "assembled"
    /\ UNCHANGED scrollPoints
    /\ UNCHANGED <<chunkVars, ragVars, genVars, restVars, uiVars>>

\* The scroll request answers with an error status
ScrollFails ==
    /\ ctxPc = "scrolling"
    /\ allChunks' = <<>>
    /\ context' = ContextOf(allChunks')
    /\ ctxPc' = "assembled"
    /\ UNCHANGED scrollPoints
    /\ UNCHANGED <<chunkVars, ragVars, genVars, restVars, uiVars>>

\* One document of up to MaxChunks chunks, its points in any order
ChunkTexts == {<<"a">>, <<"b">>}
InitCtx ==
    /\ ChunkIdle /\ RagIdle /\ ChatIdle /\ GenIdle /\ RestIdle
    /\ \E cs \in SeqsUpTo(ChunkTexts, MaxChunks) : scrollPoints \in ReturnOrders(PointsOf(cs))
    /\ allChunks = <<>>
    /\ context = <<>>
    /\ ctxPc = "scrolling"

NextCtx == ScrollReturns \/ ScrollFails
SpecCtx == InitCtx /\ [][NextCtx]_vars

\* The content of the point stored with chunk_index i
ContentAt(i) ==
    scrollPoints[CHOOSE n \in 1..Len(scrollPoints) : scrollPoints[n].chunk_index = i].content

\* C17: whatever the order in which the index returns the points of a
\* document, the chunks assembled are the contents in ascending chunk_index,
\* and the context is those contents joined by newlines between the markers.
C17_OrderInvariant ==
    (ctxPc = "assembled" /\ allChunks # <<>>)
        => /\ allChunks = [i \in 1..Len(scrollPoints) |-> ContentAt(i - 1)]
           /\ context = <<CONTEXT_OPEN>> \o Join(allChunks, <<"\n">>) \o <<CONTEXT_CLOSE>>

\* Three points with differing contents were returned last-first and assembled
C17_Witness ==
    /\ ctxPc = "assembled"
    /\ Len(scrollPoints) = 3
    /\ scrollPoints[1].chunk_index = 2
    /\ scrollPoints[3].chunk_index = 0
    /\ scrollPoints[1].content # scrollPoints[3].content
    /\ Len(allChunks) = 3
    /\ allChunks[1] = scrollPoints[3].content

\* Two indexed documents of the user: the filter is `should` over both
\* sop_id, and each point carries the sop_id of its document
MaxDocChunks == 2
SopIds == {1, 2}
PointsOfSop(sopId, cs) ==
    [i \in 1..Len(cs) |-> [sop_id |-> sopId, chunk_index |-> i - 1,
                           content |-> Substring(cs[i], 0, PREVIEW_LEN)]]
DocumentChunks == SeqsUpTo(ChunkTexts, MaxDocChunks) \ {<<>>}
InitMulti ==
    /\ ChunkIdle /\ RagIdle /\ ChatIdle /\ GenIdle /\ RestIdle
    /\ \E cs1, cs2 \in DocumentChunks :
           scrollPoints \in ReturnOrders(PointsOfSop(1, cs1) \o PointsOfSop(2, cs2))
    /\ allChunks = <<>>
    /\ context = <<>>
    /\ ctxPc = "scrolling"
SpecMulti == InitMulti /\ [][NextCtx]_vars

\* The contents of the points of one document, in ascending chunk_index
PointsOfDocument(sopId) ==
    {n \in 1..Len(scrollPoints) : scrollPoints[n].sop_id = sopId}
ChunksOfDocument(sopId) ==
    [i \in 1..Cardinality(PointsOfDocument(sopId)) |->
        scrollPoints[CHOOSE n \in PointsOfDocument(sopId) :
                         scrollPoints[n].chunk_index = i - 1].content]

\* C29: with the points of two documents returned in any order, the chunks
\* assembled are the chunks of one document in ascending chunk_index followed
\* by those of the other: the documents are not interleaved.
C29_Apart ==
    (ctxPc = "assembled" /\ allChunks # <<>>)
        => \/ allChunks = ChunksOfDocument(1) \o ChunksOfDocument(2)
           \/ allChunks = ChunksOfDocument(2) \o ChunksOfDocument(1)

----------------------------------------------------------------------------
\* The applier and the detector, as the submitted job shows them

\* A step of Submit & Run that hands a script to start-selenium-job
SubmitsJob == HandleSubmitRunConfig /\ isRunExecuting'

\* The body of a double-quoted Python literal read from position i: the text
\* it denotes and the position of its closing quote (0: not closed on the line)
RECURSIVE DecodeFrom(_, _)
DecodeFrom(s, i) ==
    IF i > Len(s) \/ s[i] = "\n" THEN [value |-> <<>>, close |-> 0]
    ELSE IF s[i] = DQ THEN [value |-> <<>>, close |-> i]
    ELSE IF s[i] = BS
         THEN IF i = Len(s) THEN [value |-> <<>>, close |-> 0]
              ELSE LET rest == DecodeFrom(s, i + 2)
                   IN  [value |-> (IF s[i + 1] \in {BS, DQ, SQ}
                                   THEN <<s[i + 1]>> ELSE <<BS, s[i + 1]>>) \o rest.value,
                        close |-> rest.close]
    ELSE LET rest == DecodeFrom(s, i + 1)
         IN  [value |-> <<s[i]>> \o rest.value, close |-> rest.close]

\* The text that stands in `job` where the applier wrote the field `name`
\* of the script `pending`
WrittenStatement(pending, job, name) ==
    LET m == FindAssignment(pending, name)
    IN  IF m = <<>> THEN SubSeq(job, 1, Len(job) - Len(pending) - 1)
        ELSE SubSeq(job, m[1], Len(job) - (Len(pending) - m[2]))

\* stmt is NAME = "literal" and nothing else, and the literal denotes value
AssignsExactly(stmt, name, value) ==
    /\ Len(stmt) >= 6
    /\ SubSeq(stmt, 1, 5) = <<name, " ", "=", " ", DQ>>
    /\ DecodeFrom(stmt, 6).close = Len(stmt)
    /\ DecodeFrom(stmt, 6).value = value

\* The value with a backslash before each backslash and each double quote
RECURSIVE EscapedValue(_)
EscapedValue(v) ==
    IF v = <<>> THEN <<>>
    ELSE (IF Head(v) \in {BS, DQ} THEN <<BS, Head(v)>> ELSE <<Head(v)>>)
             \o EscapedValue(Tail(v))

\* The lines of code that assign to name
AssignmentsTo(code, name) ==
    LET lines == SplitLines(code)
        Assigns(t) == /\ t # <<>>
                      /\ t[1] = name
                      /\ SkipSpace(t, 2) <= Len(t)
                      /\ t[SkipSpace(t, 2)] = "="
    IN  Cardinality({i \in 1..Len(lines) : Assigns(Trim(lines[i]))})

\* C6: whenever a job is submitted for a script with one detected field whose
\* value contains a double quote and a backslash, the statement written for
\* the field is exactly NAME = "literal", the literal closes at the end of
\* the statement, and decoded by Python's rules it is the user's value
\* (surrounding whitespace apart).
C6_Escaping ==
    [][(SubmitsJob /\ Len(runConfigFields) = 1)
        => LET f == runConfigFields[1]
               v == ConfigValue(f, runConfig)
           IN  (Contains(v, DQ) /\ Contains(v, BS))
               => AssignsExactly(WrittenStatement(pendingRunCode, jobScript', f.name),
                                 f.name, Trim(v))]_vars

\* C26: whenever a job is submitted for a script with one detected field and
\* a non-empty value for it, the statement that stands for the field's
\* assignment in the submitted script is exactly NAME = "E", E being the value
\* with each backslash and each double quote escaped.
C26_Literal ==
    [][(SubmitsJob /\ Len(runConfigFields) = 1)
        => LET f == runConfigFields[1]
               v == Trim(ConfigValue(f, runConfig))
           IN  v # <<>>
               => WrittenStatement(pendingRunCode, jobScript', f.name)
                      = Replacement(f.name, SafeValue(v))]_vars

\* C7: whenever a job is submitted for a script with the fields the detector
\* returned for it, the detector run on the submitted script returns, for
\* each field, a field of the same name whose value is the value written
\* (surrounding whitespace apart), and the script has as many assignments to
\* that name as before.
C7_RoundTrip ==
    [][(SubmitsJob /\ runConfigFields = extractRunConfigFields(pendingRunCode))
        => \A i \in 1..Len(runConfigFields) :
             LET f == runConfigFields[i]
                 v == Trim(ConfigValue(f, runConfig))
                 again == extractRunConfigFields(jobScript')
             IN  /\ \E j \in 1..Len(again) :
                        again[j].name = f.name /\ again[j].defaultValue = v
                 /\ AssignmentsTo(jobScript', f.name)
                        = AssignmentsTo(pendingRunCode, f.name)]_vars

\* C8: whenever a job is submitted, each field whose assignment the applier
\* cannot locate in the text it has reached is applied by putting the line
\* NAME = "<escaped value>" in front of that text, which follows unchanged;
\* the submitted script is the text after the last field.
C8_Prepends ==
    [][SubmitsJob
        => /\ jobScript' = ApplyFields(pendingRunCode, runConfigFields, runConfig,
                                       Len(runConfigFields))
           /\ \A n \in 1..Len(runConfigFields) :
                LET f == runConfigFields[n]
                    reached == ApplyFields(pendingRunCode, runConfigFields, runConfig, n - 1)
                    applied == ApplyFields(pendingRunCode, runConfigFields, runConfig, n)
                IN  FindAssignment(reached, f.name) = <<>>
                    => applied = <<f.name, " ", "=", " ", DQ>>
                                    \o EscapedValue(Trim(ConfigValue(f, runConfig)))
                                    \o <<DQ, "\n">> \o reached]_vars

\* A run is executing whose script is the pending script behind a new first
\* line for a field it does not assign, the value holding a double quote
C8_Witness ==
    /\ isRunExecuting
    /\ pendingRunCode # NULL
    /\ jobScript # NULL
    /\ Len(runConfigFields) = 1
    /\ FindAssignment(pendingRunCode, runConfigFields[1].name) = <<>>
    /\ Contains(ConfigValue(runConfigFields[1], runConfig), DQ)
    /\ jobScript = <<runConfigFields[1].name, " ", "=", " ", DQ>>
                      \o EscapedValue(Trim(ConfigValue(runConfigFields[1], runConfig)))
                      \o <<DQ, "\n">> \o pendingRunCode

\* The classification of a field, if it carries one
Classified(f, class) == "classification" \in DOMAIN f /\ f.classification = class

\* C9: for a generated script whose lines before the first function
\* definition hold PASSWORD = "your_password_here" and SEARCH_TERM = "", the
\* detected fields are PASSWORD, classified secret, then SEARCH_TERM,
\* classified plain.
C9_Detects ==
    generatedScripts \in {HeaderScript, CommentedScript}
        => /\ Len(runConfigFields) = 2
           /\ runConfigFields[1].name = "PASSWORD"
           /\ runConfigFields[2].name = "SEARCH_TERM"
           /\ Classified(runConfigFields[1], "secret")
           /\ Classified(runConfigFields[2], "plain")

Blank(v) == \A i \in 1..Len(v) : IsSpace(v[i])
BlankField(f) == Blank(ConfigValue(f, runConfig))
EmptyField(f) == ConfigValue(f, runConfig) = <<>>
NamesOf(fields) == [i \in 1..Len(fields) |-> fields[i].name]

\* Submit & Run either submits the pending script, when no field is Lacking,
\* or changes nothing but the error shown, which names the Lacking fields
SubmitDecidesBy(Lacking(_)) ==
    HandleSubmitRunConfig
        => IF SelectSeq(runConfigFields, Lacking) = <<>>
           THEN /\ isRunExecuting'
                /\ runStep' = "running"
                /\ jobScript' # NULL
           ELSE /\ ~isRunExecuting'
                /\ runStep' = "collecting"
                /\ jobScript' = jobScript
                /\ pendingRunCode' = pendingRunCode
                /\ toast' = [kind |-> "missing",
                             names |-> NamesOf(SelectSeq(runConfigFields, Lacking))]

\* C10 as stated: a job is submitted exactly when every field resolves to a
\* non-empty value; otherwise the state stays collecting, the pending script
\* is unchanged and the error names the fields with no value.
C10_SubmitNonEmpty == [][SubmitDecidesBy(EmptyField)]_vars

\* C10: a job is submitted exactly when every field resolves to a value that
\* is not blank (empty or whitespace only), the value being the entry of the
\* form or, without an entry, the detected default; otherwise the state stays
\* collecting, the pending script is unchanged and the error names exactly
\* the fields whose value is blank.
C10_Submit == [][SubmitDecidesBy(BlankField)]_vars

\* A submission was refused naming a field, and a later one submitted a job
C10_Witness ==
    /\ toast.kind = "missing"
    /\ Len(toast.names) >= 1
    /\ isRunExecuting
    /\ runStep = "running"
    /\ jobScript # NULL

----------------------------------------------------------------------------
\* The run, read by read

\* A step in which a read of the job's status is sent
ReadSent == reads' > reads

\* A step in which the answer to a read arrives
ReadAnswered == \E job \in JobRows : PollJobPending(job) \/ PollJobTerminal(job)

\* The last read of the run returned a status other than queued or running
TerminalRead == lastJob # NoJob /\ lastJob.status \notin {"queued", "running"}

\* C11: a run sends at most 150 status reads, a read that follows another
\* comes 2 seconds or more after it, the only requests the run sends are the
\* invocation of start-selenium-job and reads, and a run that gives up ends
\* with the timeout error and sends no read in that step.
C11_PollBound ==
    [][/\ reads' <= 150
       /\ (ReadSent /\ reads >= 1) => clock' - lastReadAt >= 2000
       /\ requests' \subseteq {INVOKE_START_JOB, SELECT_JOB}
       /\ PollTimesOut => /\ ~ReadSent
                          /\ runPc' = "none"
                          /\ mounted => runOutput'.error = <<TIMED_OUT>>]_vars

\* C12: once a read has returned a status other than queued or running, the
\* run sends no further read: the function has returned, and the read
\* counter moves again only when the next run starts it from zero.
C12_TerminalSticky ==
    [][TerminalRead => (runPc = "none" /\ ~ReadSent)]_vars

\* A run read the status three times or more and the last read was terminal
C12_Witness ==
    /\ TerminalRead
    /\ reads >= 3
    /\ runPc = "none"
    /\ requests = {INVOKE_START_JOB, SELECT_JOB}

\* C13: once the component has unmounted (the Cancel button is not rendered
\* while a job is queued or running), no further status read is sent, and no
\* request is sent other than the invocation and reads.
C13_NoReadAfterCancel ==
    [][~mounted => (~ReadSent /\ requests' \subseteq {INVOKE_START_JOB, SELECT_JOB})]_vars

\* C14: when the answer to a read carries a screenshot reference, that
\* screenshot is shown, and when it carries log text, that text is shown, in
\* the step in which the answer arrives, whatever the status.
C14_Surfaces ==
    [][(ReadAnswered /\ mounted)
        => /\ lastJob'.latest_screenshot_url # NULL
                => latestScreenshotUrl' = lastJob'.latest_screenshot_url
           /\ lastJob'.log_output # NULL
                => runOutput'.stdout = lastJob'.log_output]_vars

----------------------------------------------------------------------------
\* The generation client, attempt by attempt

\* The attempts made on the primary provider, the one in flight included
PrimaryAttempts == Len(outcomes) + (IF genPc = "calling" THEN 1 ELSE 0)

\* Another attempt is in flight or waits for its backoff
AttemptToCome == genPc \in {"calling", "backoff"}

\* The last attempt on the primary provider ended with a 429 response
EndedRateLimited == outcomes # <<>> /\ outcomes[Len(outcomes)] = "rate-limited"

\* C15: a request makes at most 3 attempts on the primary provider, and an
\* attempt is followed by another only if it ended with a 429 response: after
\* a 200, another HTTP error or a network exception none is made or awaited.
C15_Retry ==
    /\ PrimaryAttempts <= 3
    /\ \A i \in 1..Len(outcomes) :
         (i < Len(outcomes) \/ AttemptToCome) => outcomes[i] = "rate-limited"

\* C16: the fallback provider is called at most once, and only with a
\* fallback key configured after the primary provider ended rate-limited;
\* a request whose primary provider ended rate-limited is answered with the
\* fallback's script or with the 429 rate-limit error.
C16_Fallback ==
    /\ fallbackCalls <= 1
    /\ fallbackCalls = 1 => (lovableKey /\ EndedRateLimited)
    /\ (genPc = "replied" /\ EndedRateLimited)
         => \/ genReply = Reply(429, "rate-limit")
            \/ (genReply = Reply(200, "fallback-script") /\ fallbackCalls = 1)

\* C27: the request is answered with the rate-limit error, or the fallback
\* provider is tried, only if the last attempt on the primary provider ended
\* with a 429 response.
C27_LastAttempt ==
    /\ fallbackCalls >= 1 => EndedRateLimited
    /\ (genPc = "replied" /\ genReply = Reply(429, "rate-limit")) => EndedRateLimited

----------------------------------------------------------------------------
\* process-sop: the handler from download to the status update, one awaited
\* call at a time. Two versions of the function differ in the extraction:
\* "placeholder" asks the gateway and then builds a fixed text, "pdfjs" reads
\* the text items of the pages and refuses fewer than 50 characters

\* status: "uploaded" | "processing" | "indexed" | "failed"
DocStatuses == {"uploaded", "processing", "indexed", "failed"}

\* if (!extractedText || extractedText.length < 50)
MIN_EXTRACTED_LEN == 50

\* An extracted text: its length, and whether it holds a character that is
\* not whitespace (pdfjs appends "\n\n" per page, so a document without text
\* items yields whitespace only)
ExtractedTexts ==
    {[length |-> n, visible |-> v] :
        n \in {0, MIN_EXTRACTED_LEN - 1, MIN_EXTRACTED_LEN, MIN_EXTRACTED_LEN + 1},
        v \in BOOLEAN} \ {[length |-> 0, visible |-> TRUE]}

\* The fixed text of the placeholder version: never blank
PlaceholderText == [length |-> MIN_EXTRACTED_LEN + 1, visible |-> TRUE]

\* cleanedText is '' exactly when the text is whitespace only; then the loop
\* pushes no chunk
CleanedEmpty(t) == ~t.visible

\* catch (error): a 500 response with the message, and nothing else
DocFails(error) ==
    /\ docReply' = [status |-> 500, error |-> error]
    /\ docPc' = "done"
    /\ UNCHANGED <<docStatus, docStored>>

\* supabase.storage.from(...).download(storagePath)
Download(ok) ==
    /\ docPc = "download"
    /\ IF ok
       THEN /\ docPc' = "extract"
            /\ UNCHANGED <<docStatus, docStored, docReply>>
       ELSE DocFails("Failed to download SOP")
    /\ UNCHANGED <<docVariant, docText>>
    /\ UNCHANGED <<chunkVars, ragVars, genVars, ctxVars, loopVars, sendVars, pfVars, auxVars, uiVars>>

\* Extraction, cleaning and chunking (the last two make no call)
Extract(ok, text) ==
    /\ docPc = "extract"
    /\ IF ~ok
       THEN /\ DocFails("Text extraction failed")
            /\ UNCHANGED docText
       ELSE IF docVariant = "placeholder"
       THEN /\ docText' = PlaceholderText
            /\ docPc' = "collection"
            /\ UNCHANGED <<docStatus, docStored, docReply>>
       ELSE /\ docText' = text
            /\ IF text.length < MIN_EXTRACTED_LEN
               THEN DocFails("Failed to extract meaningful text from PDF")
               ELSE /\ docPc' = "collection"
                    /\ UNCHANGED <<docStatus, docStored, docReply>>
    /\ UNCHANGED docVariant
    /\ UNCHANGED <<chunkVars, ragVars, genVars, ctxVars, loopVars, sendVars, pfVars, auxVars, uiVars>>

\* The collection check: on 404 the collection is created with the size of
\* embeddings[0], which is undefined when there is no chunk
CollectionCheck(answer) ==
    /\ docPc = "collection"
    /\ IF answer = "throws"
       THEN DocFails("fetch failed")
       ELSE IF answer = "missing" /\ CleanedEmpty(docText)
       THEN DocFails("Cannot read properties of undefined")
       ELSE /\ docPc' = "upsert"
            /\ UNCHANGED <<docStatus, docStored, docReply>>
    /\ UNCHANGED <<docVariant, docText>>
    /\ UNCHANGED <<chunkVars, ragVars, genVars, ctxVars, loopVars, sendVars, pfVars, auxVars, uiVars>>

\* PUT of the points
Upsert(ok) ==
    /\ docPc = "upsert"
    /\ IF ok
       THEN /\ docPc' = "insert"
            /\ docStored' = docStored \cup {"points"}
            /\ UNCHANGED <<docStatus, docReply>>
       ELSE DocFails("Qdrant upsert failed")
    /\ UNCHANGED <<docVariant, docText>>
    /\ UNCHANGED <<chunkVars, ragVars, genVars, ctxVars, loopVars, sendVars, pfVars, auxVars, uiVars>>

\* insert of the chunk rows
InsertChunks(ok) ==
    /\ docPc = "insert"
    /\ IF ok
       THEN /\ docPc' = "update"
            /\ docStored' = docStored \cup {"rows"}
            /\ UNCHANGED <<docStatus, docReply>>
       ELSE DocFails("Failed to store chunks")
    /\ UNCHANGED <<docVariant, docText>>
    /\ UNCHANGED <<chunkVars, ragVars, genVars, ctxVars, loopVars, sendVars, pfVars, auxVars, uiVars>>

\* update({ status: 'indexed', ... }), then the success response
UpdateStatus(ok) ==
    /\ docPc = "update"
    /\ IF ok
       THEN /\ docStatus' = "indexed"
            /\ docReply' = [status |-> 200, error |-> "none"]
            /\ docPc' = "done"
            /\ UNCHANGED docStored
       ELSE DocFails("Failed to update SOP status")
    /\ UNCHANGED <<docVariant, docText>>
    /\ UNCHANGED <<chunkVars, ragVars, genVars, ctxVars, loopVars, sendVars, pfVars, auxVars, uiVars>>

\* One invocation for a document that has been uploaded
InitDoc ==
    /\ ChunkIdle /\ RagIdle /\ ChatIdle /\ GenIdle /\ CtxIdle
    /\ LoopIdle /\ SendIdle /\ PfIdle /\ AuxIdle
    /\ docVariant \in {"placeholder", "pdfjs"}
    /\ docText = NoText
    /\ docPc = "download"
    /\ docStatus \in {"uploaded", "processing"}
    /\ docStored = {}
    /\ docReply = NoDocReply

NextDoc ==
    \/ \E ok \in BOOLEAN : Download(ok)
    \/ \E ok \in BOOLEAN, text \in ExtractedTexts : Extract(ok, text)
    \/ \E answer \in {"exists", "missing", "throws"} : CollectionCheck(answer)
    \/ \E ok \in BOOLEAN : Upsert(ok)
    \/ \E ok \in BOOLEAN : InsertChunks(ok)
    \/ \E ok \in BOOLEAN : UpdateStatus(ok)
SpecDoc == InitDoc /\ [][NextDoc]_vars

\* The run ended with an error, or with a cleaned text that is empty
EndedInError == docPc = "done" /\ docReply.status = 500
EndedEmpty == docPc = "done" /\ docText # NoText /\ CleanedEmpty(docText)

\* C18: when processing ends with an error at any step, or the cleaned text
\* is empty, the document's stored status is failed (and so is not indexed).
C18_FailedOnError ==
    (EndedInError \/ EndedEmpty) => docStatus = "failed"


----------------------------------------------------------------------------
\* process-sop: the chunking loop, one iteration at a time. chunkSize and
\* overlap are literals of the function (3000 and 300, 150 and 50); the loop
\* is taken here with any pair, as a chunker with a configuration

MaxLoopTextLen == 3
MaxIterations == 6
LoopTexts == SeqsUpTo({"a", " "}, MaxLoopTextLen)

\* const chunks = []; ... for (let i = 0; ...
LoopStarts ==
    /\ sopStep = "extracted"
    /\ cleanedText' = CleanText(extractedText)
    /\ chunks' = <<>>
    /\ loopI' = 0
    /\ sopStep' = "chunking"
    /\ UNCHANGED <<extractedText, chunkSize, overlap, iterations>>
    /\ UNCHANGED <<ragVars, genVars, ctxVars, docVars, sendVars, pfVars, auxVars, uiVars>>

\* i < cleanedText.length: the body, then i += chunkSize - overlap
LoopIterates ==
    /\ sopStep = "chunking"
    /\ loopI < Len(cleanedText)
    /\ iterations < MaxIterations
    /\ LET chunk == Substring(cleanedText, loopI, loopI + chunkSize)
       IN  chunks' = IF Trim(chunk) # <<>> THEN Append(chunks, chunk) ELSE chunks
    /\ loopI' = loopI + ChunkStep(chunkSize, overlap)
    /\ iterations' = iterations + 1
    /\ UNCHANGED <<extractedText, chunkSize, overlap, cleanedText, sopStep>>
    /\ UNCHANGED <<ragVars, genVars, ctxVars, docVars, sendVars, pfVars, auxVars, uiVars>>

\* i >= cleanedText.length: the loop is left
LoopExits ==
    /\ sopStep = "chunking"
    /\ loopI >= Len(cleanedText)
    /\ sopStep' = "chunked"
    /\ UNCHANGED <<extractedText, chunkSize, overlap, cleanedText, chunks, loopVars>>
    /\ UNCHANGED <<ragVars, genVars, ctxVars, docVars, sendVars, pfVars, auxVars, uiVars>>

InitLoop ==
    /\ RagIdle /\ ChatIdle /\ GenIdle /\ CtxIdle
    /\ DocIdle /\ SendIdle /\ PfIdle /\ AuxIdle
    /\ extractedText \in LoopTexts
    /\ chunkSize \in 1..MaxChunkSize
    /\ overlap \in 0..MaxChunkSize
    /\ cleanedText = <<>>
    /\ chunks = <<>>
    /\ sopStep = "extracted"
    /\ loopI = 0
    /\ iterations = 0

NextLoop == LoopStarts \/ LoopIterates \/ LoopExits
SpecLoop == InitLoop /\ [][NextLoop]_vars

----------------------------------------------------------------------------
\* Validation of the inputs: handleSend in the component, messageSchema in
\* generate-script, the create mode of preflight-job

MAX_MESSAGE_LENGTH == 10000
INVOKE_GENERATE_RAG == "functions.invoke generate-script-rag"

\* The documents of the session: handleFileChange stores each with status
\* "indexed" and the content of the answer, which may be empty
SessionDocuments == SUBSET {[status |-> "indexed", content |-> c] : c \in BOOLEAN}

\* sopDocuments.some((d) => d.status === "indexed" && d.content)
HasIndexedContent(docs) == \E d \in docs : d.status = "indexed" /\ d.content

\* userMessage.length > MAX_MESSAGE_LENGTH: the text as typed
TooLong(m) == MessageLength(m) > MAX_MESSAGE_LENGTH
TrimmedTooLong(m) == m.core > MAX_MESSAGE_LENGTH

\* handleSend up to the invocation of generate-script-rag
HandleSend(message) ==
    /\ mounted
    /\ sendPc \in {"idle", "rejected"}
    /\ message.core >= 1
    /\ userMessage' = message
    /\ IF ~HasIndexedContent(sopDocuments)
       THEN /\ toast' = Toast("no-sop")
            /\ sendPc' = "rejected"
            /\ UNCHANGED requests
       ELSE IF TooLong(message)
       THEN /\ toast' = Toast("too-long")
            /\ sendPc' = "rejected"
            /\ UNCHANGED requests
       ELSE /\ sendPc' = "invoking"
            /\ requests' = requests \cup {INVOKE_GENERATE_RAG}
            /\ UNCHANGED toast
    /\ isProcessing' = IF sendPc' = "invoking" THEN TRUE ELSE isProcessing
    /\ UNCHANGED <<slice, stripped, uploadPc>>
    /\ UNCHANGED sopDocuments
    /\ UNCHANGED <<generatedScripts, runConfigFields, runConfig, pendingRunCode,
                   runStep, isRunExecuting, jobScript>>
    /\ UNCHANGED <<mounted, runPc, attempt, reads, lastJob, runOutput,
                   latestScreenshotUrl, clock, lastReadAt>>
    /\ UNCHANGED <<chunkVars, ragVars, genVars, ctxVars, loopVars, docVars, pfVars>>

\* preflight-job: a target URL is a text of these pieces, or undefined
UrlPieces == {" ", "http://", "https://", "a"}
MaxUrlLen == 2
TargetUrls == SeqsUpTo(UrlPieces, MaxUrlLen) \cup {NULL}
PreflightRequests ==
    [target_url : TargetUrls, job_id : BOOLEAN, method : {"POST", "GET"}]

\* cleanedUrl.startsWith(prefix), prefix one of the pieces
StartsWith(s, prefix) == s # <<>> /\ s[1] = prefix
RawUrl(url) == url
CleanedUrl(url) == Trim(url)
HasScheme(url) == StartsWith(url, "http://") \/ StartsWith(url, "https://")

INSERT_PREFLIGHT_JOB == "POST /rest/v1/preflight_jobs"
SELECT_PREFLIGHT_JOB == "GET /rest/v1/preflight_jobs"
PATCH_PREFLIGHT_JOB == "PATCH /rest/v1/preflight_jobs"
DISPATCH_WORKFLOW == "POST actions/workflows dispatches"

\* The request arrives: the mode is chosen, the URL of create mode is tested
PreflightRequest(req) ==
    /\ pfPc = "idle"
    /\ pfRequest' = req
    /\ IF ~Falsy(req.target_url) /\ ~req.job_id /\ req.method = "POST"
       THEN IF ~HasScheme(CleanedUrl(req.target_url))
            THEN /\ pfReply' = 400
                 /\ pfPc' = "replied"
                 /\ UNCHANGED pfCalls
            ELSE /\ pfCalls' = pfCalls \cup {INSERT_PREFLIGHT_JOB}
                 /\ pfPc' = "inserting"
                 /\ UNCHANGED pfReply
       ELSE IF req.job_id /\ Falsy(req.target_url) /\ req.method = "POST"
       THEN /\ pfCalls' = pfCalls \cup {SELECT_PREFLIGHT_JOB}
            /\ pfPc' = "selecting"
            /\ UNCHANGED pfReply
       ELSE /\ pfReply' = 400
            /\ pfPc' = "replied"
            /\ UNCHANGED pfCalls
    /\ UNCHANGED <<chunkVars, ragVars, genVars, ctxVars, loopVars, docVars, sendVars, auxVars, uiVars>>

\* The insert of the job row answers; with GitHub credentials the workflow
\* is dispatched
InsertAnswers(ok, github) ==
    /\ pfPc = "inserting"
    /\ IF ~ok
       THEN /\ pfReply' = 500
            /\ pfPc' = "replied"
            /\ UNCHANGED pfCalls
       ELSE IF github
       THEN /\ pfCalls' = pfCalls \cup {DISPATCH_WORKFLOW}
            /\ pfPc' = "dispatching"
            /\ UNCHANGED pfReply
       ELSE /\ pfReply' = 200
            /\ pfPc' = "replied"
            /\ UNCHANGED pfCalls
    /\ UNCHANGED pfRequest
    /\ UNCHANGED <<chunkVars, ragVars, genVars, ctxVars, loopVars, docVars, sendVars, auxVars, uiVars>>

\* The dispatch answers; a refusal is recorded on the job row
DispatchAnswers(ok) ==
    /\ pfPc = "dispatching"
    /\ IF ok
       THEN /\ pfReply' = 200
            /\ UNCHANGED pfCalls
       ELSE /\ pfReply' = 500
            /\ pfCalls' = pfCalls \cup {PATCH_PREFLIGHT_JOB}
    /\ pfPc' = "replied"
    /\ UNCHANGED pfRequest
    /\ UNCHANGED <<chunkVars, ragVars, genVars, ctxVars, loopVars, docVars, sendVars, auxVars, uiVars>>

\* Status query mode: the select answers with an error, no row, or the row
SelectAnswers(answer) ==
    /\ pfPc = "selecting"
    /\ pfReply' = IF answer = "error" THEN 500 ELSE IF answer = "none" THEN 404 ELSE 200
    /\ pfPc' = "replied"
    /\ UNCHANGED <<pfRequest, pfCalls>>
    /\ UNCHANGED <<chunkVars, ragVars, genVars, ctxVars, loopVars, docVars, sendVars, auxVars, uiVars>>

\* The component with the documents of its session, generate-script with its
\* primary key, preflight-job: one request each
InitInput ==
    /\ ChunkIdle /\ RagIdle /\ ChatIdle /\ CtxIdle
    /\ LoopIdle /\ DocIdle /\ PfIdle /\ AuxIdle
    /\ genRequest = NoRequest
    /\ openaiKey = TRUE
    /\ lovableKey = FALSE
    /\ genPc = "idle"
    /\ genAttempt = 0
    /\ response = NoResponse
    /\ lastError = "undefined"
    /\ outcomes = <<>>
    /\ fallbackCalls = 0
    /\ genReply = NoReply
    /\ TimerIdle
    /\ sopDocuments \in SessionDocuments
    /\ userMessage = NoMessage
    /\ sendPc = "idle"

NextInput ==
    \/ \E message \in Messages : HandleSend(message)
    \/ \E message \in Messages, document \in BOOLEAN : GenRequest(message, document)
    \/ \E resp \in {r \in ProviderResponses : r.status \in {200, 401}} :
           PrimaryResponds(resp)
    \/ \E req \in PreflightRequests : PreflightRequest(req)
    \/ \E ok, github \in BOOLEAN : InsertAnswers(ok, github)
    \/ \E ok \in BOOLEAN : DispatchAnswers(ok)
    \/ \E answer \in {"error", "none", "row"} : SelectAnswers(answer)
SpecInput == InitInput /\ [][NextInput]_vars

\* What each handler did with the request it holds
SendRejected ==
    /\ sendPc = "rejected"
    /\ toast.kind \in {"no-sop", "too-long"}
    /\ INVOKE_GENERATE_RAG \notin requests
GenRejected ==
    /\ genPc = "replied"
    /\ genReply = Reply(400, "validation")
    /\ outcomes = <<>>
    /\ fallbackCalls = 0
PreflightRejected ==
    /\ pfPc = "replied"
    /\ pfReply = 400
    /\ pfCalls = {}
CreateMode ==
    /\ ~Falsy(pfRequest.target_url)
    /\ ~pfRequest.job_id
    /\ pfRequest.method = "POST"

\* The three validations, by what counts as the length of the instruction
\* and as the target URL
Validated(long(_), url(_)) ==
    /\ (userMessage # NoMessage
            /\ (TooLong(userMessage) \/ ~HasIndexedContent(sopDocuments)))
           => SendRejected
    /\ (genRequest # NoRequest /\ long(genRequest.message)) => GenRejected
    /\ (pfRequest # NoPreflight /\ CreateMode /\ ~HasScheme(url(pfRequest.target_url)))
           => PreflightRejected

\* C20 as stated: an instruction of more than 10,000 characters, a send
\* without an indexed document that has content, a target URL that does not
\* start with http:// or https:// is rejected before any call is made.
C20_RejectsRaw == Validated(TooLong, RawUrl)

\* C20, amended: the component measures the instruction as typed; the two
\* functions trim first, so generate-script refuses an instruction whose
\* trimmed text is longer than 10,000 characters and preflight-job a target
\* URL whose trimmed text does not start with http:// or https://. Each
\* refusal comes before any call.
C20_Rejects == Validated(TrimmedTooLong, CleanedUrl)

\* All three handlers have refused: an instruction of 10,001 characters sent
\* with a document, the same sent to generate-script, a URL without scheme
C20_Witness ==
    /\ userMessage = Message(0, MAX_MESSAGE_LENGTH + 1)
    /\ HasIndexedContent(sopDocuments)
    /\ SendRejected
    /\ genRequest.message = Message(0, MAX_MESSAGE_LEN + 1)
    /\ GenRejected
    /\ pfRequest.target_url = <<"a">>
    /\ CreateMode
    /\ PreflightRejected


----------------------------------------------------------------------------
\* The order of the attempts of generate-script

\* A fetch of the primary provider is issued in this step
AttemptIssued == inFlight' > inFlight

\* C21: the attempts of one request never overlap; attempt k+1 is issued only
\* after the response (or failure) of attempt k was received and the delay
\* of 2^k seconds set at that moment has elapsed: 1 s, then 2 s.
C21_Sequential ==
    [][/\ inFlight' \in {0, 1}
       /\ (AttemptIssued /\ genAttempt' > 0) =>
              /\ inFlight = 0
              /\ genPc = "backoff"
              /\ Len(outcomes) = genAttempt'
              /\ waits = [k \in 1..genAttempt' |-> 2^(k - 1) * 1000]
              /\ genClock >= (2^genAttempt' - 1) * 1000]_vars

\* The third attempt is in flight, after waits of 1 s and 2 s
C21_Witness ==
    /\ genPc = "calling"
    /\ inFlight = 1
    /\ genAttempt = 2
    /\ outcomes = <<"rate-limited", "rate-limited">>
    /\ waits = <<1000, 2000>>
    /\ genClock = 3000


----------------------------------------------------------------------------
\* stripCodeFences on a slice of its own

MaxSliceLen == 5
Slices == SeqsUpTo(CodeChars, MaxSliceLen)

StripSlice ==
    /\ stripped = NotStripped
    /\ stripped' = stripCodeFences(slice)
    /\ UNCHANGED <<slice, isProcessing, uploadPc>>
    /\ UNCHANGED <<chunkVars, ragVars, genVars, ctxVars, loopVars, docVars, sendVars,
                   pfVars, uiVars>>

InitFence ==
    /\ ChunkIdle /\ RagIdle /\ ChatIdle /\ GenIdle /\ CtxIdle
    /\ LoopIdle /\ DocIdle /\ SendIdle /\ PfIdle
    /\ slice \in Slices
    /\ stripped = NotStripped
    /\ isProcessing = FALSE
    /\ uploadPc = "idle"

NextFence == StripSlice
SpecFence == InitFence /\ [][NextFence]_vars

\* The lines of the slice as handed over (trimmed), and of the result
SliceLines == SplitLines(Trim(slice))
StrippedLines == SplitLines(stripped)
Interior == 2..(Len(SliceLines) - 1)

\* C22: only the first and the last line of the slice may be removed, plus
\* surrounding whitespace: every interior line that is not blank, a line that
\* begins or ends with the fence token included, is returned as it was and in
\* the same order (at one common offset in the lines of the result).
C22_InteriorKept ==
    stripped # NotStripped =>
        \E a \in 0..Len(SliceLines) :
            \A i \in Interior :
                Trim(SliceLines[i]) # <<>> =>
                    /\ i - a \in 1..Len(StrippedLines)
                    /\ Trim(StrippedLines[i - a]) = Trim(SliceLines[i])


----------------------------------------------------------------------------
\* The detector on scripts with definitions of every kind

\* Lines that open a class or an async function: neither matches
\* /^def\s+\w+\s*\(/ nor /^if __name__\s*==/
CLASS_DEF == "class Config:"
ASYNC_DEF == "async def main("

MaxScriptLines == 3
ScriptLines ==
    {<<CONFIG_COMMENT>>, PasswordLine, <<" ">> \o SearchTermLine,
     <<DEF_MAIN>>, <<MAIN_GUARD>>, <<CLASS_DEF>>, <<ASYNC_DEF>>}

\* lines.join("\n")
RECURSIVE JoinLines(_)
JoinLines(lines) ==
    IF lines = <<>> THEN <<>>
    ELSE IF Len(lines) = 1 THEN lines[1]
    ELSE lines[1] \o <<"\n">> \o JoinLines(Tail(lines))

DetectorScripts ==
    {JoinLines(ls) : ls \in SeqsUpTo(ScriptLines, MaxScriptLines) \ {<<>>}}

NextDetect == \E pythonScript \in DetectorScripts : HandleSendSucceeds(pythonScript)
SpecDetect == InitChat /\ [][NextDetect]_vars

\* A line that opens a function, a class, or the main-entry guard
IsDefinitionLine(line) ==
    LET trimmed == Trim(line)
    IN  trimmed # <<>> /\ trimmed[1] \in {DEF_MAIN, MAIN_GUARD, CLASS_DEF, ASYNC_DEF}

\* The lines of a script before its first definition line
HeaderRegion(code) ==
    LET lines == SplitLines(code)
        defs == {i \in 1..Len(lines) : IsDefinitionLine(lines[i])}
    IN  IF defs = {} THEN code ELSE JoinLines(SubSeq(lines, 1, MinOf(defs) - 1))

\* C23: the fields returned for a script are those of its lines before the
\* first function definition, class definition or main-entry guard: no field
\* comes from a line at or after it.
C23_HeaderOnly ==
    generatedScripts # NULL
        => runConfigFields = extractRunConfigFields(HeaderRegion(generatedScripts))


----------------------------------------------------------------------------
\* The fields applied at submission and the script they are applied to

\* C24: whenever a job is submitted, the configuration fields applied were
\* detected from the script that is pending for the run, in every
\* interleaving of run-requested, generation, cancel and submit.
C24_SameScript ==
    [][SubmitsJob => runConfigFields = extractRunConfigFields(pendingRunCode)]_vars


----------------------------------------------------------------------------
\* ChatInterface: isProcessing, set by handleSend and by handleFileChange

\* handleSend: the invocation failed or answered with an error (catch)
HandleSendFails ==
    /\ mounted
    /\ sendPc = "invoking"
    /\ toast' = Toast("generate-failed")
    /\ sendPc' = "idle"
    /\ UNCHANGED <<generatedScripts, runConfigFields, runConfig, pendingRunCode,
                   runStep, isRunExecuting, jobScript>>
    /\ UNCHANGED <<sopDocuments, userMessage>>
    /\ UNCHANGED <<runVars, chunkVars, ragVars, genVars, ctxVars, loopVars, docVars,
                   pfVars, auxVars>>

\* handleFileChange with a PDF, from the Upload control (disabled while
\* isProcessing): setIsProcessing(true), then the request to process-sop
UploadStarts ==
    /\ mounted
    /\ ~isProcessing
    /\ uploadPc = "idle"
    /\ isProcessing' = TRUE
    /\ uploadPc' = "uploading"
    /\ UNCHANGED <<slice, stripped>>
    /\ UNCHANGED <<chatVars, runVars, sendVars>>
    /\ UNCHANGED <<chunkVars, ragVars, genVars, ctxVars, loopVars, docVars, pfVars>>

\* The request answers; finally { setIsProcessing(false) }
UploadEnds(ok, content) ==
    /\ mounted
    /\ uploadPc = "uploading"
    /\ IF ok
       THEN /\ sopDocuments' = sopDocuments \cup {[status |-> "indexed", content |-> content]}
            /\ toast' = Toast("uploaded")
       ELSE /\ toast' = Toast("upload-failed")
            /\ UNCHANGED sopDocuments
    /\ isProcessing' = FALSE
    /\ uploadPc' = "idle"
    /\ UNCHANGED <<slice, stripped>>
    /\ UNCHANGED <<generatedScripts, runConfigFields, runConfig, pendingRunCode,
                   runStep, isRunExecuting, jobScript>>
    /\ UNCHANGED <<runVars, userMessage, sendPc>>
    /\ UNCHANGED <<chunkVars, ragVars, genVars, ctxVars, loopVars, docVars, pfVars>>

\* The scripts the generation answers with here: one with a configuration
\* block and one without
AnsweredScripts == {<<DEF_MAIN>>, <<CONFIG_COMMENT>>}
GenerationAnswers ==
    \/ \E pythonScript \in AnsweredScripts :
           sendPc = "invoking" /\ HandleSendSucceeds(pythonScript)
    \/ HandleSendFails
UploadAnswers == \E ok, content \in BOOLEAN : UploadEnds(ok, content)

NextProcessing ==
    \/ \E message \in Messages : HandleSend(message)
    \/ GenerationAnswers
    \/ UploadStarts
    \/ UploadAnswers

\* Every request is answered in the end: by its result or by an error
SpecProcessing ==
    /\ InitChat
    /\ [][NextProcessing]_vars
    /\ WF_vars(GenerationAnswers)
    /\ WF_vars(UploadAnswers)

\* C25: after every generation request started by handleSend, whether it
\* succeeds or fails, isProcessing eventually is false again.
C25_Released == (sendPc = "invoking") ~> (~isProcessing)

----------------------------------------------------------------------------
\* The run of a submitted job, from the invocation to the finally block

\* Every request of the run is answered and every timer fires
RunAdvances ==
    \/ StartJobFails
    \/ StartJobReturns
    \/ PollJobError
    \/ \E job \in JobRows : PollJobPending(job) \/ PollJobTerminal(job)
    \/ PollAgain
    \/ PollTimesOut
SpecRunFair == SpecRun /\ WF_vars(RunAdvances)

\* A step in which executeSeleniumRun returns
RunEnds == runPc # "none" /\ runPc' = "none"
FormClosed == runStep' = "idle" /\ ~isRunExecuting'
Terminates == (runPc # "none") ~> (runPc = "none")

====
